---- MODULE Spec2Model ----
(***************************************************************************)
(* A model of pyff, the semantic differ for Python modules.                *)
(*                                                                         *)
(* Conventions.                                                            *)
(*  - A dotted name ("os.path.join") is the sequence of its components     *)
(*    (<<"os", "path", "join">>); a plain identifier is a sequence of      *)
(*    length one.  Joining with "." is concatenation, split(".") is the    *)
(*    sequence itself.  The empty sequence stands for Python's None where  *)
(*    a name is optional (ast.alias.asname, ast.ImportFrom.module,         *)
(*    FullyQualifyNames._current, ExternalNamesExtractor.in_progress).     *)
(*  - An AST node is a record with a field t naming its class; ast.dump    *)
(*    equality is structural equality of these records.                    *)
(*  - An optional result is a record with a field tag: "None" for None,    *)
(*    "Raise" for a raised exception, else the class of the object.        *)
(*  - A dict is a function; a dict whose order matters (popitem) is a      *)
(*    sequence of <<key, value>> pairs in insertion order.                 *)
(***************************************************************************)
EXTENDS Integers, Sequences, FiniteSets, TLC

VARIABLES old, new, old_imports, new_imports, result, pc

vars == <<old, new, old_imports, new_imports, result, pc>>

None == [tag |-> "None"]

Raise(exc) == [tag |-> "Raise", exc |-> exc]

NoName == << >>

Range(f) == {f[k] : k \in DOMAIN f}

\* dict without one key (del d[k])
DictDel(d, k) == [x \in (DOMAIN d) \ {k} |-> d[x]]

\* d[k] = v
DictSet(d, k, v) == [x \in (DOMAIN d) \cup {k} |-> IF x = k THEN v ELSE d[x]]

EmptyDict == [x \in {} |-> {}]

(***************************************************************************)
(* ast nodes                                                               *)
(***************************************************************************)
Alias(name, asname) == [name |-> name, asname |-> asname]

Import(names) == [t |-> "Import", names |-> names]

ImportFrom(module, names) == [t |-> "ImportFrom", module |-> module, names |-> names]

Name(id) == [t |-> "Name", id |-> id]

Attribute(value, attr) == [t |-> "Attribute", value |-> value, attr |-> attr]

Call(func, args) == [t |-> "Call", func |-> func, args |-> args]

Return(value) == [t |-> "Return", value |-> value]

Expr(value) == [t |-> "Expr", value |-> value]

Assign(targets, value) == [t |-> "Assign", targets |-> targets, value |-> value]

Pass == [t |-> "Pass"]

FunctionDef(name, body, decorator_list) ==
    [t |-> "FunctionDef", name |-> name, body |-> body, decorator_list |-> decorator_list]

ClassDef(name, bases, body) == [t |-> "ClassDef", name |-> name, bases |-> bases, body |-> body]

Module(body) == [t |-> "Module", body |-> body]

(***************************************************************************)
(* imports.py: ImportedName                                                *)
(***************************************************************************)
ImportedName(name, node, alias) == [name |-> name, node |-> node, alias |-> alias]

is_import(n) == n.node.t = "Import"

is_import_from(n) == n.node.t = "ImportFrom"

\* f"{self.node.module}": None formats as the text "None"
FormatModule(module) == IF module = NoName THEN <<"None">> ELSE module

canonical_name(n) ==
    IF n.node.t = "Import" THEN n.alias.name
    ELSE FormatModule(n.node.module) \o n.alias.name

RECURSIVE AttributeChain(_, _)
\* the while loop of canonical_ast: wrap node in one Attribute per remaining item
AttributeChain(node, items) ==
    IF items = << >> THEN node
    ELSE AttributeChain(Attribute(node, Head(items)), Tail(items))

DottedAst(items) == AttributeChain(Name(Head(items)), Tail(items))

canonical_ast(n) ==
    IF n.node.t = "Import" THEN DottedAst(n.alias.name)
    ELSE IF n.node.module = NoName THEN Raise("Exception")
    ELSE DottedAst(n.node.module \o n.alias.name)

(***************************************************************************)
(* imports.py: ImportedNames and ImportExtractor                           *)
(***************************************************************************)
ImportedNames == [names |-> EmptyDict, from_modules |-> {}]

\* _add that leaves a local name bound once it is bound
ImportedNames_add_first_kept(self, name, node) ==
    LET key == IF name.asname # NoName THEN name.asname ELSE name.name
    IN  IF key \in DOMAIN self.names THEN self
        ELSE [self EXCEPT !.names = DictSet(self.names, key, ImportedName(key, node, name))]

ImportedNames_add(self, name, node) ==
    IF name.asname # NoName
    THEN [self EXCEPT !.names = DictSet(self.names, name.asname, ImportedName(name.asname, node, name))]
    ELSE [self EXCEPT !.names = DictSet(self.names, name.name, ImportedName(name.name, node, name))]

RECURSIVE AddAll(_, _, _)
\* for name in node.names: self._add(name, node)
AddAll(self, names, node) ==
    IF names = << >> THEN self
    ELSE AddAll(ImportedNames_add(self, Head(names), node), Tail(names), node)

add_import(self, node) == AddAll(self, node.names, node)

add_importfrom(self, node) ==
    LET added == AddAll(self, node.names, node)
    IN  IF node.module # NoName
        THEN [added EXCEPT !.from_modules = @ \cup {node.module}]
        ELSE added

RECURSIVE ImportExtractor_visit(_, _)
\* the statements of a unit in order; other statements hold no import in this model
ImportExtractor_visit(names, body) ==
    IF body = << >> THEN names
    ELSE LET node == Head(body)
             next == IF node.t = "Import" THEN add_import(names, node)
                     ELSE IF node.t = "ImportFrom" THEN add_importfrom(names, node)
                     ELSE names
         IN  ImportExtractor_visit(next, Tail(body))

extract(code) == ImportExtractor_visit(ImportedNames, code.body)

(***************************************************************************)
(* imports.py: FromImportPyfference and ImportsPyfference                  *)
(* The nested FromImportPyfference is flattened into the fields            *)
(* fi_new, fi_removed, fi_new_modules, fi_removed_modules.                 *)
(***************************************************************************)
ImportsPyfference ==
    [tag |-> "ImportsPyfference",
     new_imports |-> {}, removed_imports |-> {},
     fi_new |-> EmptyDict, fi_removed |-> EmptyDict,
     fi_new_modules |-> {}, fi_removed_modules |-> {},
     changed_to_fromimport |-> EmptyDict, changed_to_import |-> EmptyDict]

add_new(self, node) ==
    LET module == node.node.module
        had == IF module \in DOMAIN self.fi_new THEN self.fi_new[module] ELSE {}
    IN  [self EXCEPT !.fi_new = DictSet(self.fi_new, module, had \cup {node})]

add_removed(self, node) ==
    LET module == node.node.module
        had == IF module \in DOMAIN self.fi_removed THEN self.fi_removed[module] ELSE {}
    IN  [self EXCEPT !.fi_removed = DictSet(self.fi_removed, module, had \cup {node})]

delete_new_module(self, module) ==
    [self EXCEPT !.fi_new_modules = @ \ {module},
                 !.fi_new = IF module \in DOMAIN @ THEN DictDel(@, module) ELSE @]

delete_removed_module(self, module) ==
    [self EXCEPT !.fi_removed_modules = @ \ {module},
                 !.fi_removed = IF module \in DOMAIN @ THEN DictDel(@, module) ELSE @]

FromImportPyfference_bool(self) ==
    \/ DOMAIN self.fi_new # {}
    \/ DOMAIN self.fi_removed # {}
    \/ self.fi_new_modules # {}
    \/ self.fi_removed_modules # {}

ImportsPyfference_bool(self) ==
    \/ self.new_imports # {}
    \/ self.removed_imports # {}
    \/ FromImportPyfference_bool(self)
    \/ DOMAIN self.changed_to_fromimport # {}
    \/ DOMAIN self.changed_to_import # {}

new_import(self, node) == [self EXCEPT !.new_imports = @ \cup {node}]

removed_import(self, node) == [self EXCEPT !.removed_imports = @ \cup {node}]

new_from_import(self, node) ==
    IF node.node.module # NoName THEN add_new(self, node) ELSE self

removed_from_import(self, node) ==
    IF node.node.module # NoName THEN add_removed(self, node) ELSE self

new_fromimport_modules(self, modules) == [self EXCEPT !.fi_new_modules = @ \cup modules]

removed_fromimport_modules(self, modules) == [self EXCEPT !.fi_removed_modules = @ \cup modules]

RECURSIVE ReduceNew(_, _)
\* first loop of reduce, over a snapshot of _new_imports; a failed lookup raises
ReduceNew(self, todo) ==
    IF todo = {} \/ self.tag = "Raise" THEN self
    ELSE LET name == CHOOSE n \in todo : TRUE
             step ==
                 IF name.name \in self.fi_removed_modules
                 THEN IF name.name \notin DOMAIN self.fi_removed
                      THEN Raise("KeyError")
                      ELSE delete_removed_module(
                               [self EXCEPT !.new_imports = @ \ {name},
                                            !.changed_to_import =
                                                DictSet(@, name.name, self.fi_removed[name.name])],
                               name.name)
                 ELSE self
         IN  ReduceNew(step, todo \ {name})

RECURSIVE ReduceRemoved(_, _)
\* second loop of reduce, over a snapshot of _removed_imports
ReduceRemoved(self, todo) ==
    IF todo = {} \/ self.tag = "Raise" THEN self
    ELSE LET name == CHOOSE n \in todo : TRUE
             step ==
                 IF name.name \in self.fi_new_modules
                 THEN IF name.name \notin DOMAIN self.fi_new
                      THEN Raise("KeyError")
                      ELSE delete_new_module(
                               [self EXCEPT !.removed_imports = @ \ {name},
                                            !.changed_to_fromimport =
                                                DictSet(@, name.name, self.fi_new[name.name])],
                               name.name)
                 ELSE self
         IN  ReduceRemoved(step, todo \ {name})

\* reduce() that files every upgrade as a downgrade too
reduce_filed_twice(self) ==
    LET first == ReduceNew(self, self.new_imports)
    IN  IF first.tag = "Raise" THEN first
        ELSE IF ReduceRemoved(first, first.removed_imports).tag = "Raise"
        THEN ReduceRemoved(first, first.removed_imports)
        ELSE [ReduceRemoved(first, first.removed_imports) EXCEPT
                  !.changed_to_fromimport = @ @@ first.changed_to_import]

\* reduce() without its second loop
reduce_new_only(self) == ReduceNew(self, self.new_imports)

reduce(self) ==
    LET first == ReduceNew(self, self.new_imports)
    IN  IF first.tag = "Raise" THEN first
        ELSE ReduceRemoved(first, first.removed_imports)

RECURSIVE RecordNew(_, _)
\* for name, node in new.names.items(): if name not in old.names: ...
RecordNew(change, todo) ==
    IF todo = {} THEN change
    ELSE LET node == CHOOSE n \in todo : TRUE
             step == IF is_import(node) THEN new_import(change, node)
                     ELSE IF is_import_from(node) THEN new_from_import(change, node)
                     ELSE change
         IN  RecordNew(step, todo \ {node})

RECURSIVE RecordRemoved(_, _)
\* for name, node in old.names.items(): if name not in new.names: ...
RecordRemoved(change, todo) ==
    IF todo = {} THEN change
    ELSE LET node == CHOOSE n \in todo : TRUE
             step == IF is_import(node) THEN removed_import(change, node)
                     ELSE IF is_import_from(node) THEN removed_from_import(change, node)
                     ELSE change
         IN  RecordRemoved(step, todo \ {node})

simplify_imports(self) == IF ImportsPyfference_bool(self) THEN self ELSE None

compare(o, n) ==
    LET fresh == {n.names[k] : k \in (DOMAIN n.names) \ (DOMAIN o.names)}
        gone  == {o.names[k] : k \in (DOMAIN o.names) \ (DOMAIN n.names)}
        c1 == RecordNew(ImportsPyfference, fresh)
        c2 == RecordRemoved(c1, gone)
        c3 == new_fromimport_modules(c2, n.from_modules \ o.from_modules)
        c4 == removed_fromimport_modules(c3, o.from_modules \ n.from_modules)
        change == reduce(c4)
    IN  IF change.tag = "Raise" THEN change
        ELSE IF ImportsPyfference_bool(change) THEN change ELSE None

pyff_imports(o, n) ==
    LET difference == compare(extract(o), extract(n))
    IN  IF difference.tag = "Raise" THEN difference
        ELSE IF difference.tag # "None" /\ ImportsPyfference_bool(difference) THEN difference
        ELSE None

(***************************************************************************)
(* statements.py: FullyQualifyNames (an ast.NodeTransformer)               *)
(* A visit returns the node that replaces the visited one and the          *)
(* transformer after the visit.                                            *)
(***************************************************************************)
IsRaise(x) == "tag" \in DOMAIN x /\ x.tag = "Raise"

IsNone(x) == "tag" \in DOMAIN x /\ x.tag = "None"

FullyQualifyNames(imports) ==
    [external_names |-> imports, substitutions |-> EmptyDict,
     references |-> EmptyDict, current |-> NoName]

Visited(node, self) == [node |-> node, self |-> self]

FullyQualifyNames_visit_Name(self, node) ==
    LET cleared == [self EXCEPT !.current = NoName]
        key == <<node.id>>
    IN  IF key \in DOMAIN self.external_names.names
        THEN LET current == canonical_name(self.external_names.names[key])
                 seen == [cleared EXCEPT !.current = current,
                                         !.references = DictSet(@, current, key)]
             IN  IF key = current
                 THEN Visited(node, seen)
                 ELSE Visited(canonical_ast(self.external_names.names[key]),
                              [seen EXCEPT !.substitutions = DictSet(@, key, current)])
        ELSE Visited(node, cleared)

\* the bookkeeping of visit_Attribute after generic_visit returned
FullyQualifyNames_after_Attribute(self, node) ==
    IF self.current # NoName
    THEN LET prefix == self.current
             current == prefix \o <<node.attr>>
             key == self.references[prefix]
         IN  [self EXCEPT !.current = current,
                          !.references = DictSet(@, current, key \o <<node.attr>>)]
    ELSE self

RECURSIVE FullyQualifyNames_visit(_, _)
RECURSIVE FullyQualifyNames_visit_list(_, _, _)

\* NodeTransformer.generic_visit over a list field: nodes in order, done is the new list
FullyQualifyNames_visit_list(self, nodes, done) ==
    IF nodes = << >> THEN Visited([t |-> "list", elts |-> done], self)
    ELSE LET v == FullyQualifyNames_visit(self, Head(nodes))
         IN  IF IsRaise(v.node) THEN v
             ELSE FullyQualifyNames_visit_list(v.self, Tail(nodes), Append(done, v.node))

FullyQualifyNames_visit(self, node) ==
    IF node.t = "Name" THEN FullyQualifyNames_visit_Name(self, node)
    ELSE IF node.t = "Attribute"
    THEN LET v == FullyQualifyNames_visit(self, node.value)
         IN  IF IsRaise(v.node) THEN v
             ELSE Visited(Attribute(v.node, node.attr),
                          FullyQualifyNames_after_Attribute(v.self, node))
    ELSE IF node.t = "Call"
    THEN LET f == FullyQualifyNames_visit(self, node.func)
         IN  IF IsRaise(f.node) THEN f
             ELSE LET a == FullyQualifyNames_visit_list(f.self, node.args, << >>)
                  IN  IF IsRaise(a.node) THEN a
                      ELSE Visited(Call(f.node, a.node.elts), a.self)
    ELSE IF node.t \in {"Return", "Expr"}
    THEN LET v == FullyQualifyNames_visit(self, node.value)
         IN  IF IsRaise(v.node) THEN v
             ELSE Visited([node EXCEPT !.value = v.node], v.self)
    ELSE IF node.t = "Assign"
    THEN LET ts == FullyQualifyNames_visit_list(self, node.targets, << >>)
         IN  IF IsRaise(ts.node) THEN ts
             ELSE LET v == FullyQualifyNames_visit(ts.self, node.value)
                  IN  IF IsRaise(v.node) THEN v
                      ELSE Visited(Assign(ts.node.elts, v.node), v.self)
    ELSE Visited(node, self)

(***************************************************************************)
(* statements.py: find_external_name_matches, StatementPyfference,         *)
(* pyff_statement                                                          *)
(***************************************************************************)
SingleExternalNameUsageChange(o, n) == [old |-> o, new |-> n]

ExternalNameUsageChange(changes) == [tag |-> "ExternalNameUsageChange", changes |-> changes]

\* the two loops over the substitutions without the second, the one over
\* the substitutions made in the new statement
match_substitutions_old_only(fq_old, fq_new) ==
    IF IsRaise(fq_old.node) THEN fq_old.node
    ELSE IF IsRaise(fq_new.node) THEN fq_new.node
    ELSE LET from_old ==
                 {SingleExternalNameUsageChange(
                      original, fq_new.self.references[fq_old.self.substitutions[original]]) :
                    original \in {x \in DOMAIN fq_old.self.substitutions :
                        fq_old.self.substitutions[x] \in DOMAIN fq_new.self.references}}
             changes == IF fq_old.node = fq_new.node THEN from_old ELSE {}
         IN  IF changes # {} THEN ExternalNameUsageChange(changes) ELSE None

\* find_external_name_matches once both statements are fully qualified:
\* fq_old and fq_new are the visited statement with its transformer
match_substitutions(fq_old, fq_new) ==
    IF IsRaise(fq_old.node) THEN fq_old.node
    ELSE IF IsRaise(fq_new.node) THEN fq_new.node
    ELSE LET from_old ==
                 {SingleExternalNameUsageChange(
                      original, fq_new.self.references[fq_old.self.substitutions[original]]) :
                    original \in {x \in DOMAIN fq_old.self.substitutions :
                        fq_old.self.substitutions[x] \in DOMAIN fq_new.self.references}}
             from_new ==
                 {SingleExternalNameUsageChange(
                      fq_old.self.references[fq_new.self.substitutions[original]], original) :
                    original \in {x \in DOMAIN fq_new.self.substitutions :
                        fq_new.self.substitutions[x] \in DOMAIN fq_old.self.references}}
             changes == IF fq_old.node = fq_new.node THEN from_old \cup from_new ELSE {}
         IN  IF changes # {} THEN ExternalNameUsageChange(changes) ELSE None

find_external_name_matches(o, n, o_imports, n_imports) ==
    IF o = n THEN None
    ELSE match_substitutions(FullyQualifyNames_visit(FullyQualifyNames(o_imports), o),
                             FullyQualifyNames_visit(FullyQualifyNames(n_imports), n))

StatementPyfference ==
    [tag |-> "StatementPyfference", semantically_relevant |-> {}, semantically_irrelevant |-> {}]

add_semantically_irrelevant_change(self, change) ==
    [self EXCEPT !.semantically_irrelevant = @ \cup {change}]

semantically_different(self) ==
    self.semantically_relevant # {} \/ ~(self.semantically_irrelevant # {})

is_specific(self) == self.semantically_relevant # {} \/ self.semantically_irrelevant # {}

\* pyff_statement after find_external_name_matches returned change
record_name_matches(change) ==
    IF IsRaise(change) THEN change
    ELSE IF ~IsNone(change)
    THEN add_semantically_irrelevant_change(StatementPyfference, change)
    ELSE StatementPyfference

pyff_statement(old_statement, new_statement, o_imports, n_imports) ==
    IF old_statement = new_statement THEN None
    ELSE record_name_matches(
             find_external_name_matches(old_statement, new_statement, o_imports, n_imports))

(***************************************************************************)
(* functions.py: implementation-change records.  They live in a Python set: *)
(* an element is added unless the set holds one with the same hash that    *)
(* compares equal.                                                         *)
(***************************************************************************)
NoStr == ""

FunctionImplementationChange == [tag |-> "FunctionImplementationChange"]

ExternalUsageChange(gone, appeared) ==
    [tag |-> "ExternalUsageChange", gone |-> gone, appeared |-> appeared]

StatementChange(change) == [tag |-> "StatementChange", change |-> change]

\* each class hashes the constant text of its own name
ImplementationChange_hash(c) == c.tag

\* FunctionImplementationChange.__eq__ is inherited by StatementChange;
\* ExternalUsageChange overrides it
ImplementationChange_eq(a, b) ==
    IF a.tag = "ExternalUsageChange"
    THEN a.gone = b.gone /\ a.appeared = b.appeared
    ELSE TRUE

SetAdd(set, c) ==
    IF \E e \in set : ImplementationChange_hash(e) = ImplementationChange_hash(c)
                      /\ ImplementationChange_eq(e, c)
    THEN set
    ELSE set \cup {c}

(***************************************************************************)
(* functions.py: FunctionPyfference, FunctionSummary, the recorder         *)
(***************************************************************************)
FunctionPyfference(name, implementation, old_name) ==
    [tag |-> "FunctionPyfference", name |-> name, old_name |-> old_name,
     implementation |-> implementation, noun |-> "Function"]

FunctionPyfference_set_method(self) == [self EXCEPT !.noun = "Method"]

FunctionPyfference_simplify(self) ==
    IF self.old_name # NoStr \/ self.implementation # {} THEN self ELSE None

FunctionSummary(name, node, is_property) ==
    [tag |-> "FunctionSummary", name |-> name, node |-> node,
     property |-> is_property, noun |-> "function"]

FunctionSummary_set_method(self) == [self EXCEPT !.noun = "method"]

FunctionPyfferenceRecorder(name) == [name |-> name, old_name |-> NoStr, implementation |-> {}]

name_changed(self, old_name) == [self EXCEPT !.old_name = old_name]

implementation_changed(self, change) == [self EXCEPT !.implementation = SetAdd(@, change)]

\* build() that reports renames only
build_renamed_only(self) ==
    IF self.old_name = NoStr THEN None
    ELSE FunctionPyfference(self.name, self.implementation, self.old_name)

build(self) ==
    IF self.old_name = NoStr /\ self.implementation = {} THEN None
    ELSE FunctionPyfference(self.name, self.implementation, self.old_name)

(***************************************************************************)
(* functions.py: ExternalNamesExtractor (an ast.NodeVisitor) and           *)
(* compare_import_usage                                                    *)
(***************************************************************************)
ExternalNamesExtractor(imported_names) ==
    [imported_names |-> imported_names, names |-> {}, in_progress |-> NoName]

ExternalNamesExtractor_visit_Name(self, node) ==
    IF <<node.id>> \in DOMAIN self.imported_names.names
    THEN [self EXCEPT !.in_progress = NoName, !.names = @ \cup {<<node.id>>}]
    ELSE [self EXCEPT !.in_progress = <<node.id>>]

\* visit_Attribute after its generic_visit returned
ExternalNamesExtractor_after_Attribute(self, node) ==
    IF self.in_progress # NoName
    THEN LET in_progress == self.in_progress \o <<node.attr>>
         IN  IF in_progress \in DOMAIN self.imported_names.names
             THEN [self EXCEPT !.names = @ \cup {in_progress}, !.in_progress = NoName]
             ELSE [self EXCEPT !.in_progress = in_progress]
    ELSE self

RECURSIVE ExternalNamesExtractor_visit(_, _)
RECURSIVE ExternalNamesExtractor_visit_list(_, _)

ExternalNamesExtractor_visit_list(self, nodes) ==
    IF nodes = << >> THEN self
    ELSE ExternalNamesExtractor_visit_list(
             ExternalNamesExtractor_visit(self, Head(nodes)), Tail(nodes))

ExternalNamesExtractor_visit(self, node) ==
    IF node.t = "Name" THEN ExternalNamesExtractor_visit_Name(self, node)
    ELSE IF node.t = "Attribute"
    THEN ExternalNamesExtractor_after_Attribute(
             ExternalNamesExtractor_visit([self EXCEPT !.in_progress = NoName], node.value), node)
    ELSE IF node.t = "Call"
    THEN ExternalNamesExtractor_visit_list(ExternalNamesExtractor_visit(self, node.func), node.args)
    ELSE IF node.t \in {"Return", "Expr"} THEN ExternalNamesExtractor_visit(self, node.value)
    ELSE IF node.t = "Assign"
    THEN ExternalNamesExtractor_visit(
             ExternalNamesExtractor_visit_list(self, node.targets), node.value)
    ELSE self

compare_import_usage(o, n, o_imports, n_imports) ==
    LET first_walker == ExternalNamesExtractor_visit_list(ExternalNamesExtractor(o_imports), o.body)
        second_walker == ExternalNamesExtractor_visit_list(ExternalNamesExtractor(n_imports), n.body)
        appeared == second_walker.names \ first_walker.names
        gone == first_walker.names \ second_walker.names
    IN  IF appeared # {} \/ gone # {} THEN ExternalUsageChange(gone, appeared) ELSE None

(***************************************************************************)
(* functions.py: pyff_function                                             *)
(***************************************************************************)
\* one turn of the zip_longest loop after pyff_statement returned change;
\* the recorder becomes Raise when the comparison raised
record_statement(recorder, change) ==
    IF IsRaise(change) THEN change
    ELSE IF IsNone(change) THEN recorder
    ELSE IF is_specific(change)
    THEN implementation_changed(recorder, StatementChange(change))
    ELSE implementation_changed(recorder, FunctionImplementationChange)

RECURSIVE CompareBodies(_, _, _, _, _)
\* the zip_longest loop, left when a comparison raises
CompareBodies(recorder, old_body, new_body, o_imports, n_imports) ==
    IF IsRaise(recorder) THEN recorder
    ELSE IF old_body = << >> /\ new_body = << >> THEN recorder
    ELSE IF old_body = << >> \/ new_body = << >>
    THEN implementation_changed(recorder, FunctionImplementationChange)
    ELSE CompareBodies(
             record_statement(recorder,
                 pyff_statement(Head(old_body), Head(new_body), o_imports, n_imports)),
             Tail(old_body), Tail(new_body), o_imports, n_imports)

\* RecordName that takes the new name for the old one
RecordName_new_as_old(o, n) ==
    IF o.name # n.name
    THEN name_changed(FunctionPyfferenceRecorder(n.name), n.name)
    ELSE FunctionPyfferenceRecorder(n.name)

RecordName(o, n) ==
    IF o.name # n.name
    THEN name_changed(FunctionPyfferenceRecorder(n.name), o.name)
    ELSE FunctionPyfferenceRecorder(n.name)

\* pyff_function after the statement loop: compared is the recorder or Raise
record_usage(compared, external_name_usage_difference) ==
    IF IsRaise(compared) THEN compared
    ELSE IF ~IsNone(external_name_usage_difference)
    THEN build(implementation_changed(compared, external_name_usage_difference))
    ELSE build(compared)

pyff_function(o, n, o_imports, n_imports) ==
    record_usage(
        CompareBodies(RecordName(o, n), o.node.body, n.node.body, o_imports, n_imports),
        compare_import_usage(o.node, n.node, o_imports, n_imports))

(***************************************************************************)
(* functions.py: FunctionsExtractor.  functions is a dict in insertion     *)
(* order: a sequence of <<name, summary>> pairs.                           *)
(***************************************************************************)
Keys(items) == {items[i][1] : i \in DOMAIN items}

Lookup(items, k) == items[CHOOSE i \in DOMAIN items : items[i][1] = k][2]

\* d[k] = v on an ordered dict: an existing key keeps its place
ItemSet(items, k, v) ==
    IF k \in Keys(items)
    THEN [i \in DOMAIN items |-> IF items[i][1] = k THEN <<k, v>> ELSE items[i]]
    ELSE Append(items, <<k, v>>)

is_property_decorator(node) == node.t = "Name" /\ node.id = "property"

FunctionsExtractor_visit_FunctionDef(functions, node) ==
    LET is_property == \E i \in DOMAIN node.decorator_list :
                           is_property_decorator(node.decorator_list[i])
    IN  ItemSet(functions, node.name, FunctionSummary(node.name, node, is_property))

RECURSIVE FunctionsExtractor_visit(_, _)
RECURSIVE FunctionsExtractor_visit_list(_, _)

FunctionsExtractor_visit_list(functions, nodes) ==
    IF nodes = << >> THEN functions
    ELSE FunctionsExtractor_visit_list(FunctionsExtractor_visit(functions, Head(nodes)), Tail(nodes))

\* visit_ClassDef passes; a Module is walked by generic_visit; the other
\* statements of this model hold no definition
FunctionsExtractor_visit(functions, node) ==
    IF node.t = "FunctionDef" THEN FunctionsExtractor_visit_FunctionDef(functions, node)
    ELSE IF node.t = "Module" THEN FunctionsExtractor_visit_list(functions, node.body)
    ELSE functions

(***************************************************************************)
(* functions.py: pyff_function_code.  A source text is given as the Module *)
(* the parser returns for it.                                              *)
(***************************************************************************)
\* dict.popitem(): the pair inserted last, KeyError on an empty dict
popitem(items) ==
    IF items = << >> THEN Raise("KeyError")
    ELSE [tag |-> "item", value |-> items[Len(items)][2], rest |-> SubSeq(items, 1, Len(items) - 1)]

pyff_function_code(o, n, o_imports, n_imports) ==
    LET old_popped == popitem(FunctionsExtractor_visit(<< >>, o))
    IN  IF IsRaise(old_popped) THEN Raise("ValueError")
        ELSE LET new_popped == popitem(FunctionsExtractor_visit(old_popped.rest, n))
             IN  IF IsRaise(new_popped) THEN Raise("ValueError")
                 ELSE pyff_function(old_popped.value, new_popped.value, o_imports, n_imports)

(***************************************************************************)
(* functions.py: FunctionsPyfference and pyff_functions                    *)
(***************************************************************************)
FunctionsPyfference(new_functions, changed, removed) ==
    [tag |-> "FunctionsPyfference", new |-> new_functions, changed |-> changed, removed |-> removed]

\* the mutation that reaches the changed functions only
FunctionsPyfference_set_method_changed_only(self) ==
    [self EXCEPT !.changed = [k \in DOMAIN @ |-> FunctionPyfference_set_method(@[k])]]

FunctionsPyfference_set_method(self) ==
    [self EXCEPT !.removed = [k \in DOMAIN @ |-> FunctionSummary_set_method(@[k])],
                 !.changed = [k \in DOMAIN @ |-> FunctionPyfference_set_method(@[k])],
                 !.new = [k \in DOMAIN @ |-> FunctionSummary_set_method(@[k])]]

FunctionsPyfference_simplify(self) ==
    LET kept == {f \in DOMAIN self.changed : ~IsNone(FunctionPyfference_simplify(self.changed[f]))}
        new_changed == [f \in kept |-> FunctionPyfference_simplify(self.changed[f])]
        simplified == [self EXCEPT !.changed = new_changed]
    IN  [self |-> simplified,
         value |-> IF DOMAIN self.new # {} \/ DOMAIN new_changed # {} \/ DOMAIN self.removed # {}
                   THEN simplified ELSE None]

\* the end of pyff_functions: difference maps each function of both units
\* to what pyff_function returned for it
report_functions(difference, new_functions, removed_functions) ==
    LET differences == [f \in {g \in DOMAIN difference : ~IsNone(difference[g])} |->
                           difference[f]]
    IN  IF \E f \in DOMAIN difference : IsRaise(difference[f])
        THEN difference[CHOOSE f \in DOMAIN difference : IsRaise(difference[f])]
        ELSE IF DOMAIN differences # {} \/ DOMAIN new_functions # {} \/ DOMAIN removed_functions # {}
        THEN FunctionsPyfference(new_functions, differences, removed_functions)
        ELSE None

\* compare_functions that does not report the functions the new unit lacks
compare_functions_no_removed(old_walker, new_walker, o_imports, n_imports) ==
    report_functions(
        [f \in Keys(old_walker) \cap Keys(new_walker) |->
            pyff_function(Lookup(old_walker, f), Lookup(new_walker, f), o_imports, n_imports)],
        [f \in Keys(new_walker) \ Keys(old_walker) |-> Lookup(new_walker, f)],
        EmptyDict)

\* pyff_functions once both walkers have visited their unit
compare_functions(old_walker, new_walker, o_imports, n_imports) ==
    report_functions(
        [f \in Keys(old_walker) \cap Keys(new_walker) |->
            pyff_function(Lookup(old_walker, f), Lookup(new_walker, f), o_imports, n_imports)],
        [f \in Keys(new_walker) \ Keys(old_walker) |-> Lookup(new_walker, f)],
        [f \in Keys(old_walker) \ Keys(new_walker) |-> Lookup(old_walker, f)])

pyff_functions(o, n, o_imports, n_imports) ==
    compare_functions(FunctionsExtractor_visit_list(<< >>, o.body),
                      FunctionsExtractor_visit_list(<< >>, n.body), o_imports, n_imports)

(***************************************************************************)
(* kitchensink.py: rendered text is the sequence of its pieces             *)
(***************************************************************************)
\* the value of a __str__ that returns: the pieces of its text in order
Str(pieces) == [tag |-> "str", pieces |-> pieces]

\* the opening mark (two backquotes) and the closing mark (two apostrophes),
\* each one piece of text
HL_OPEN == "HL_OPEN"

HL_CLOSE == "HL_CLOSE"

hl(what) == <<HL_OPEN, what, HL_CLOSE>>

\* name, or name followed by the plural "s"
pluralize(name, count) == IF count = 1 THEN <<name>> ELSE <<name, "s">>

\* str(self) of a FunctionSummary, as pieces of text
FunctionSummary_str(self) ==
    (IF self.property THEN <<"property">> ELSE << >>) \o <<self.noun>> \o hl(self.name)

\* str(self) of a FunctionPyfference: the heading lines, and the changes
\* whose messages follow them (no message reads the noun)
FunctionPyfference_str(self) ==
    [lines |-> (IF self.old_name # NoStr
                THEN << <<self.noun>> \o hl(self.old_name) \o <<"renamed to">> \o hl(self.name) >>
                ELSE << >>)
               \o (IF self.implementation # {}
                   THEN << <<self.noun>> \o hl(self.name) \o <<"changed implementation:">> >>
                   ELSE << >>),
     changes |-> self.implementation]

\* str(self) of a FunctionsPyfference: the three changesets, each the set of
\* its sorted lines
FunctionsPyfference_str(self) ==
    [removed |-> {<<"Removed">> \o FunctionSummary_str(self.removed[name]) : name \in DOMAIN self.removed},
     changed |-> [name \in DOMAIN self.changed |-> FunctionPyfference_str(self.changed[name])],
     new |-> {<<"New">> \o FunctionSummary_str(self.new[name]) : name \in DOMAIN self.new}]

(***************************************************************************)
(* classes.py: ClassSummary                                                *)
(***************************************************************************)
LocalBaseClass(name) == [tag |-> "LocalBaseClass", name |-> name]

ImportedBaseClass(name) == [tag |-> "ImportedBaseClass", name |-> name]

BaseClass_str(self) ==
    IF self.tag = "LocalBaseClass" THEN <<"local">> \o hl(self.name)
    ELSE <<"imported">> \o hl(self.name)

ClassSummary(methods, definition, attributes, baseclasses) ==
    [tag |-> "ClassSummary", methods |-> methods, attributes |-> attributes,
     baseclasses |-> baseclasses, definition |-> definition]

\* the identifiers of this model that start with "_"
PrivateNames == {"__init__", "_helper"}

public_methods(self) == {method \in self.methods : method \notin PrivateNames}

private_methods(self) == {method \in self.methods : method \in PrivateNames}

ClassSummary_str(self) ==
    LET class_part == <<"class">> \o hl(self.definition.name)
        methods == pluralize("method", Cardinality(public_methods(self)))
        method_part == <<"with", ToString(Cardinality(public_methods(self))), "public">> \o methods
    IN  IF self.baseclasses = << >> THEN Str(class_part \o method_part)
        ELSE IF Len(self.baseclasses) = 1
        THEN Str(class_part \o <<"derived from">> \o BaseClass_str(self.baseclasses[1])
                            \o method_part)
        ELSE Raise("Exception")

(***************************************************************************)
(* summary.py: the ClassSummary that counts its methods                    *)
(***************************************************************************)
summary_ClassSummary(name, methods, private, baseclasses) ==
    [tag |-> "summary.ClassSummary", name |-> name, methods |-> methods,
     private_methods |-> private, public_methods |-> methods - private,
     baseclasses |-> baseclasses]

summary_ClassSummary_str(self) ==
    LET class_part == <<"class">> \o hl(self.name)
        method_part == <<"with", ToString(self.public_methods), "public", "method", "s">>
    IN  IF self.baseclasses = << >> THEN Str(class_part \o method_part)
        ELSE IF Len(self.baseclasses) = 1
        THEN Str(class_part \o <<"derived from">> \o BaseClass_str(self.baseclasses[1])
                            \o method_part)
        ELSE Raise("Exception")

(***************************************************************************)
(* classes.py: ClassesExtractor                                            *)
(***************************************************************************)
\* SelfAttributeExtractor.visit on one assignment target
SelfAttributeExtractor_visit(attributes, node) ==
    IF node.t = "Attribute" /\ node.value.t = "Name" /\ node.value.id = "self"
    THEN attributes \cup {node.attr}
    ELSE attributes

\* MethodExtractor.extract_attributes: the Assign statements of the method body
extract_attributes(node) ==
    UNION {UNION {SelfAttributeExtractor_visit({}, node.body[i].targets[j]) :
                      j \in DOMAIN node.body[i].targets} :
               i \in {k \in DOMAIN node.body : node.body[k].t = "Assign"}}

\* MethodExtractor.visit on a ClassDef: the FunctionDefs of its body
MethodExtractor_visit(node) ==
    LET defs == {i \in DOMAIN node.body : node.body[i].t = "FunctionDef"}
    IN  [methods |-> {node.body[i].name : i \in defs},
         attributes |-> UNION {extract_attributes(node.body[i]) : i \in defs}]

RECURSIVE ClassifyBases(_, _, _)
\* the loop over node.bases; base.id exists on a Name only
ClassifyBases(names, bases, done) ==
    IF bases = << >> THEN [tag |-> "bases", list |-> done]
    ELSE LET base == Head(bases)
         IN  IF base.t # "Name" THEN Raise("AttributeError")
             ELSE IF <<base.id>> \in DOMAIN names.names
             THEN ClassifyBases(names, Tail(bases), Append(done, ImportedBaseClass(base.id)))
             ELSE ClassifyBases(names, Tail(bases), Append(done, LocalBaseClass(base.id)))

\* classes is the dict _classes, or Raise
ClassesExtractor_visit_ClassDef(classes, names, node) ==
    LET extractor == MethodExtractor_visit(node)
        bases == ClassifyBases(names, node.bases, << >>)
    IN  IF IsRaise(bases) THEN bases
        ELSE DictSet(classes, node.name,
                     ClassSummary(extractor.methods, node, extractor.attributes, bases.list))

RECURSIVE ClassesExtractor_visit(_, _, _)
\* generic_visit over the body of a Module: only a ClassDef holds a class here
ClassesExtractor_visit(classes, names, body) ==
    IF body = << >> \/ IsRaise(classes) THEN classes
    ELSE ClassesExtractor_visit(
             IF Head(body).t = "ClassDef"
             THEN ClassesExtractor_visit_ClassDef(classes, names, Head(body))
             ELSE classes,
             names, Tail(body))

(***************************************************************************)
(* classes.py: the class diffs, pyff_class and pyff_classes                *)
(***************************************************************************)
AttributesPyfference(removed, new_attributes) ==
    [tag |-> "AttributesPyfference", removed |-> removed, new |-> new_attributes]

AttributesPyfference_bool(self) == self.removed # {} \/ self.new # {}

ClassPyfference(name, attributes, methods) ==
    [tag |-> "ClassPyfference", name |-> name, attributes |-> attributes, methods |-> methods]

\* what str(self) does to self: the method diff, when present, is set to method vocabulary
ClassPyfference_str(self) ==
    IF ~IsNone(self.methods)
    THEN [self EXCEPT !.methods = FunctionsPyfference_set_method(@)]
    ELSE self

ClassesPyfference(new_classes, changed) ==
    [tag |-> "ClassesPyfference", new |-> new_classes, changed |-> changed]

ClassesPyfference_simplify(self) == IF self.new # {} THEN self ELSE None

\* the end of pyff_class: methods is what pyff_functions returned
class_difference(name, methods, attributes) ==
    IF IsRaise(methods) THEN methods
    ELSE IF ~IsNone(methods) \/ AttributesPyfference_bool(attributes)
    THEN ClassPyfference(name, attributes, methods)
    ELSE None

pyff_class(o, n, o_imports, n_imports) ==
    class_difference(
        n.definition.name,
        pyff_functions(o.definition, n.definition, o_imports, n_imports),
        AttributesPyfference(o.attributes \ n.attributes, n.attributes \ o.attributes))

\* the end of pyff_classes: difference maps each class of both units to
\* what pyff_class returned for it; the debug line formats each
\* difference, which runs its __str__
report_classes(difference, new_classes) ==
    LET differences == [klass \in {k \in DOMAIN difference : ~IsNone(difference[k])} |->
                           ClassPyfference_str(difference[klass])]
    IN  IF \E k \in DOMAIN difference : IsRaise(difference[k])
        THEN difference[CHOOSE k \in DOMAIN difference : IsRaise(difference[k])]
        ELSE IF DOMAIN differences # {} \/ new_classes # {}
        THEN ClassesPyfference(new_classes, differences)
        ELSE None

\* pyff_classes once both walkers have visited their unit; a walker is
\* Raise when its visit raised
compare_classes(first_walker, second_walker, o_imports, n_imports) ==
    IF IsRaise(first_walker) THEN first_walker
    ELSE IF IsRaise(second_walker) THEN second_walker
    ELSE report_classes(
             [klass \in (DOMAIN first_walker) \cap (DOMAIN second_walker) |->
                 pyff_class(first_walker[klass], second_walker[klass], o_imports, n_imports)],
             {second_walker[k] : k \in (DOMAIN second_walker) \ (DOMAIN first_walker)})

pyff_classes(o, n, o_imports, n_imports) ==
    compare_classes(ClassesExtractor_visit(EmptyDict, o_imports, o.body),
                    ClassesExtractor_visit(EmptyDict, n_imports, n.body), o_imports, n_imports)

(***************************************************************************)
(* modules.py: ModuleSummary, ModulePyfference, pyff_module                *)
(***************************************************************************)
ModuleSummary(name, node) == [name |-> name, node |-> node]

ModulePyfference(imports, classes, functions) ==
    [tag |-> "ModulePyfference", other |-> << >>,
     imports |-> imports, classes |-> classes, functions |-> functions]

\* bool(x): None is false, a class that defines __bool__ answers through
\* it, an object of any other class is true
Truthy(x) ==
    IF IsNone(x) THEN FALSE
    ELSE IF x.tag = "ImportsPyfference" THEN ImportsPyfference_bool(x)
    ELSE IF x.tag = "AttributesPyfference" THEN AttributesPyfference_bool(x)
    ELSE TRUE

\* self after the call and the value returned
ModulePyfference_simplify(self) ==
    LET imports == IF ~IsNone(self.imports) THEN simplify_imports(self.imports) ELSE self.imports
        classes == IF ~IsNone(self.classes) THEN ClassesPyfference_simplify(self.classes)
                   ELSE self.classes
        functions == IF ~IsNone(self.functions) THEN FunctionsPyfference_simplify(self.functions).value
                     ELSE self.functions
        simplified == [self EXCEPT !.imports = imports, !.classes = classes,
                                   !.functions = functions]
    IN  [self |-> simplified,
         value |-> IF Truthy(functions) \/ Truthy(classes) \/ Truthy(imports) \/ self.other # << >>
                   THEN simplified ELSE None]

\* the end of pyff_module: the three differences are in hand
module_difference(imports, classes, functions) ==
    IF IsRaise(imports) THEN imports
    ELSE IF IsRaise(classes) THEN classes
    ELSE IF IsRaise(functions) THEN functions
    ELSE IF ~IsNone(imports) \/ ~IsNone(classes) \/ ~IsNone(functions)
    THEN ModulePyfference(imports, classes, functions)
    ELSE None

pyff_module(o, n) ==
    module_difference(
        pyff_imports(o.node, n.node),
        pyff_classes(o.node, n.node, extract(o.node), extract(n.node)),
        pyff_functions(o.node, n.node, extract(o.node), extract(n.node)))

(***************************************************************************)
(* Import extraction and comparison as a state machine: the import         *)
(* statements of the old and of the new unit are visited one at a time     *)
(* (ImportExtractor.visit_Import / visit_ImportFrom), then                 *)
(* ImportedNames.compare runs on the two models.                           *)
(***************************************************************************)
MaxNames == 3

ImpModules == {<<"os">>, <<"sys">>}

ImpAsNames == {NoName, <<"p">>}

ImportNodes == {Import(<<Alias(m, a)>>) : m \in ImpModules, a \in ImpAsNames}

ImportFromNodes ==
    {ImportFrom(m, <<Alias(<<n>>, a)>>) :
        m \in ImpModules \cup {NoName}, n \in {"path", "os"}, a \in ImpAsNames}

NamesBound(o, n) == Cardinality(DOMAIN o.names) + Cardinality(DOMAIN n.names)

NoUnit == Module(<< >>)

InitImports ==
    /\ old = NoUnit
    /\ new = NoUnit
    /\ old_imports = ImportedNames
    /\ new_imports = ImportedNames
    /\ result = None
    /\ pc = "extract"

visit_Import_old(node) ==
    /\ pc = "extract"
    /\ NamesBound(add_import(old_imports, node), new_imports) <= MaxNames
    /\ old_imports' = add_import(old_imports, node)
    /\ UNCHANGED <<old, new, new_imports, result, pc>>

visit_Import_new(node) ==
    /\ pc = "extract"
    /\ NamesBound(old_imports, add_import(new_imports, node)) <= MaxNames
    /\ new_imports' = add_import(new_imports, node)
    /\ UNCHANGED <<old, new, old_imports, result, pc>>

visit_ImportFrom_old(node) ==
    /\ pc = "extract"
    /\ NamesBound(add_importfrom(old_imports, node), new_imports) <= MaxNames
    /\ old_imports' = add_importfrom(old_imports, node)
    /\ UNCHANGED <<old, new, new_imports, result, pc>>

visit_ImportFrom_new(node) ==
    /\ pc = "extract"
    /\ NamesBound(old_imports, add_importfrom(new_imports, node)) <= MaxNames
    /\ new_imports' = add_importfrom(new_imports, node)
    /\ UNCHANGED <<old, new, old_imports, result, pc>>

Compare ==
    /\ pc = "extract"
    /\ result' = compare(old_imports, new_imports)
    /\ pc' = "compared"
    /\ UNCHANGED <<old, new, old_imports, new_imports>>

NextImports ==
    \/ \E node \in ImportNodes : visit_Import_old(node)
    \/ \E node \in ImportNodes : visit_Import_new(node)
    \/ \E node \in ImportFromNodes : visit_ImportFrom_old(node)
    \/ \E node \in ImportFromNodes : visit_ImportFrom_new(node)
    \/ Compare

SpecImports == InitImports /\ [][NextImports]_vars

(***************************************************************************)
(* Reduction of upgrades (C4)                                              *)
(***************************************************************************)
\* the new model binds M by an unaliased "import M" and the old model binds no M
AddsDirectImport(M) ==
    /\ M \in (DOMAIN new_imports.names) \ (DOMAIN old_imports.names)
    /\ is_import(new_imports.names[M])
    /\ new_imports.names[M].alias.name = M

\* a name the old model imports from M is not bound in the new model
RemovesNameFrom(M) ==
    \E k \in (DOMAIN old_imports.names) \ (DOMAIN new_imports.names) :
        /\ is_import_from(old_imports.names[k])
        /\ old_imports.names[k].node.module = M

ReportedOnceAsUpgrade(M) ==
    /\ ~IsNone(result) /\ ~IsRaise(result)
    /\ M \in DOMAIN result.changed_to_import
    /\ \A n \in result.new_imports : n.name # M
    /\ M \notin DOMAIN result.fi_removed

\* C4: when the new model adds a direct import of M and a name the old
\* model imported from M was removed, the diff of compare holds one
\* "changed to import" record for M, and M is neither among the new direct
\* imports nor a key of the from-import removed mapping.
C4_ReductionOfUpgrades ==
    pc = "compared" =>
        \A M \in ImpModules : (AddsDirectImport(M) /\ RemovesNameFrom(M)) => ReportedOnceAsUpgrade(M)

\* the same, for the modules from which the new model imports no name
ReductionWhenModuleGone ==
    pc = "compared" =>
        \A M \in ImpModules :
            (AddsDirectImport(M) /\ RemovesNameFrom(M) /\ M \notin new_imports.from_modules
             /\ ~IsRaise(result)) => ReportedOnceAsUpgrade(M)

(***************************************************************************)
(* Simple upgrade and downgrade (C7)                                       *)
(***************************************************************************)
\* the old model holds only names imported from M, the new model only an
\* unaliased "import M"
SimpleUpgrade(M) ==
    /\ DOMAIN old_imports.names # {}
    /\ \A k \in DOMAIN old_imports.names :
           is_import_from(old_imports.names[k]) /\ old_imports.names[k].node.module = M
    /\ old_imports.from_modules = {M}
    /\ DOMAIN new_imports.names = {M}
    /\ is_import(new_imports.names[M])
    /\ new_imports.names[M].alias = Alias(M, NoName)
    /\ new_imports.from_modules = {}

UpgradeRecord(M) ==
    /\ ~IsNone(result) /\ ~IsRaise(result)
    /\ result.changed_to_import = (M :> Range(old_imports.names))
    /\ result.new_imports = {}
    /\ result.fi_removed = EmptyDict
    /\ result.fi_removed_modules = {}

DowngradeRecord(M) ==
    LET swapped == compare(new_imports, old_imports)
    IN  /\ ~IsNone(swapped) /\ ~IsRaise(swapped)
        /\ swapped.changed_to_fromimport = (M :> Range(old_imports.names))
        /\ swapped.removed_imports = {}
        /\ swapped.fi_new = EmptyDict
        /\ swapped.fi_new_modules = {}

\* C7: when the old model holds only from-imports of names N from M and the
\* new model only an unaliased "import M", compare gives one upgraded
\* record, M with the names N, and empty new imports, from-import removed
\* mapping and removed modules; with the arguments swapped it gives one
\* downgraded record, M with the names N, and empty removed imports,
\* from-import new mapping and new modules.
C7_SimpleUpgradeDowngrade ==
    pc = "compared" =>
        \A M \in ImpModules : SimpleUpgrade(M) => UpgradeRecord(M) /\ DowngradeRecord(M)

\* the same, when none of the names N is bound under the local name M
SimpleUpgradeOtherLocalNames ==
    pc = "compared" =>
        \A M \in ImpModules :
            (SimpleUpgrade(M) /\ M \notin DOMAIN old_imports.names)
                => UpgradeRecord(M) /\ DowngradeRecord(M)

(***************************************************************************)
(* Statement comparison: two statements, each under the import model of    *)
(* its unit, go through pyff_statement.                                    *)
(***************************************************************************)
MaxDepth == 2

StmtNameIds == {"os", "path", "p"}

StmtAttrIds == {"path", "join"}

RECURSIVE Exprs(_)
\* names with at most d attribute accesses on them
Exprs(d) ==
    IF d = 0 THEN {Name(id) : id \in StmtNameIds}
    ELSE Exprs(d - 1) \cup {Attribute(e, a) : e \in Exprs(d - 1), a \in StmtAttrIds}

\* the access x(path).join: an attribute of what a call returns
AttributeOfCall == Attribute(Call(Name("x"), <<Name("path")>>), "join")

\* return e, return e(x), return x(path).join and pass
Statements ==
    {Return(e) : e \in Exprs(MaxDepth)}
    \cup {Return(Call(e, <<Name("x")>>)) : e \in Exprs(MaxDepth)}
    \cup {Return(AttributeOfCall), Pass}

StmtImportUnits ==
    {Module(<< >>),
     Module(<<Import(<<Alias(<<"os">>, NoName)>>)>>),
     Module(<<Import(<<Alias(<<"os", "path">>, NoName)>>)>>),
     Module(<<Import(<<Alias(<<"os", "path">>, <<"p">>)>>)>>),
     Module(<<ImportFrom(<<"os">>, <<Alias(<<"path">>, NoName)>>)>>),
     Module(<<ImportFrom(<<"os">>, <<Alias(<<"path">>, <<"p">>)>>)>>),
     Module(<<ImportFrom(NoName, <<Alias(<<"path">>, NoName)>>)>>),
     Module(<<Import(<<Alias(<<"os">>, NoName)>>),
              ImportFrom(<<"os">>, <<Alias(<<"path">>, NoName)>>)>>)}

InitStmt ==
    /\ old \in Statements
    /\ new \in Statements
    /\ old_imports \in {extract(u) : u \in StmtImportUnits}
    /\ new_imports \in {extract(u) : u \in StmtImportUnits}
    /\ result = None
    /\ pc = "start"

PyffStatement ==
    /\ pc = "start"
    /\ result' = pyff_statement(old, new, old_imports, new_imports)
    /\ pc' = "done"
    /\ UNCHANGED <<old, new, old_imports, new_imports>>

NextStmt == PyffStatement

SpecStmt == InitStmt /\ [][NextStmt]_vars

(***************************************************************************)
(* Alias-invariance of statement comparison (C3)                           *)
(***************************************************************************)
RECURSIVE SubExprs(_)
\* a node and every node below it
SubExprs(node) ==
    {node} \cup
    (IF node.t = "Attribute" THEN SubExprs(node.value)
     ELSE IF node.t \in {"Return", "Expr"} THEN SubExprs(node.value)
     ELSE IF node.t = "Call"
     THEN SubExprs(node.func) \cup UNION {SubExprs(node.args[i]) : i \in DOMAIN node.args}
     ELSE {})

\* the local names of import model I that statement s uses
UsedImports(s, I) == {<<e.id>> : e \in {x \in SubExprs(s) : x.t = "Name"}} \cap DOMAIN I.names

\* every imported name s uses has a canonical dotted path: a relative
\* from-import names no origin module
Canonicalisable(s, I) ==
    \A k \in UsedImports(s, I) : is_import(I.names[k]) \/ I.names[k].node.module # NoName

RECURSIVE Canonicalised(_, _)
\* s with every imported local name replaced by its canonical dotted path
Canonicalised(s, I) ==
    IF s.t = "Name"
    THEN IF <<s.id>> \in DOMAIN I.names THEN DottedAst(canonical_name(I.names[<<s.id>>])) ELSE s
    ELSE IF s.t = "Attribute" THEN Attribute(Canonicalised(s.value, I), s.attr)
    ELSE IF s.t \in {"Return", "Expr"} THEN [s EXCEPT !.value = Canonicalised(s.value, I)]
    ELSE IF s.t = "Call"
    THEN Call(Canonicalised(s.func, I), [i \in DOMAIN s.args |-> Canonicalised(s.args[i], I)])
    ELSE s

AliasEquivalent(s1, I1, s2, I2) ==
    /\ s1 # s2
    /\ Canonicalisable(s1, I1)
    /\ Canonicalisable(s2, I2)
    /\ Canonicalised(s1, I1) = Canonicalised(s2, I2)

RECURSIVE PathOf(_, _)
\* the canonical path an expression denotes when it is a chain of attribute
\* accesses on a name that I binds, NoName otherwise
PathOf(e, I) ==
    IF e.t = "Name"
    THEN IF <<e.id>> \in DOMAIN I.names THEN canonical_name(I.names[<<e.id>>]) ELSE NoName
    ELSE IF e.t = "Attribute"
    THEN IF PathOf(e.value, I) # NoName THEN PathOf(e.value, I) \o <<e.attr>> ELSE NoName
    ELSE NoName

\* the canonical paths s refers to starting from a name that I binds
Reached(s, I) == {PathOf(e, I) : e \in SubExprs(s)} \ {NoName}

\* the canonical paths of the imported names of s that the replacement rewrites
Replaced(s, I) == {canonical_name(I.names[k]) : k \in {x \in UsedImports(s, I) : canonical_name(I.names[x]) # x}}

\* a rewritten name of one statement is referred to, through a bound name, in the other
MatchedAlias(s1, I1, s2, I2) ==
    \/ Replaced(s1, I1) \cap Reached(s2, I2) # {}
    \/ Replaced(s2, I2) \cap Reached(s1, I1) # {}

OnlyAliasChange(d) ==
    /\ ~IsNone(d) /\ ~IsRaise(d)
    /\ d.semantically_irrelevant # {}
    /\ d.semantically_relevant = {}

\* the one-statement functions around the two statements of the state
AsFunction(s) == FunctionSummary("f", FunctionDef("f", <<s>>, << >>), FALSE)

NoGenericRecord(d) ==
    IsNone(d) \/ (~IsRaise(d) /\ FunctionImplementationChange \notin d.implementation)

AliasOnlyOutcome ==
    /\ OnlyAliasChange(result)
    /\ NoGenericRecord(pyff_function(AsFunction(old), AsFunction(new), old_imports, new_imports))

MaxBody == 2

FuncNames == {"f", "g"}

FuncStatements == {Pass, Return(Name("path")), Return(Name("p"))}

RECURSIVE SeqsUpTo(_, _)
\* the sequences over S of length at most n
SeqsUpTo(S, n) ==
    IF n = 0 THEN {<< >>}
    ELSE SeqsUpTo(S, n - 1) \cup {Append(q, x) : q \in SeqsUpTo(S, n - 1), x \in S}

\* a function body holds at least one statement
Bodies == SeqsUpTo(FuncStatements, MaxBody) \ {<< >>}

Summaries == {FunctionSummary(n, FunctionDef(n, b, << >>), FALSE) : n \in FuncNames, b \in Bodies}

FuncImportUnits ==
    {Module(<< >>),
     Module(<<ImportFrom(<<"os">>, <<Alias(<<"path">>, NoName)>>)>>),
     Module(<<ImportFrom(<<"os">>, <<Alias(<<"path">>, <<"p">>)>>)>>),
     Module(<<Import(<<Alias(<<"os", "path">>, <<"p">>)>>)>>),
     Module(<<ImportFrom(NoName, <<Alias(<<"path">>, NoName)>>)>>),
     Module(<<ImportFrom(<<"os">>, <<Alias(<<"path">>, NoName)>>),
              Import(<<Alias(<<"sys">>, <<"p">>)>>)>>),
     Module(<<ImportFrom(<<"os">>, <<Alias(<<"path">>, <<"p">>)>>),
              Import(<<Alias(<<"sys">>, <<"path">>)>>)>>)}

InitFunc ==
    /\ old \in Summaries
    /\ new \in Summaries
    /\ old_imports \in {extract(u) : u \in FuncImportUnits}
    /\ new_imports \in {extract(u) : u \in FuncImportUnits}
    /\ result = None
    /\ pc = "start"

PyffFunction ==
    /\ pc = "start"
    /\ result' = pyff_function(old, new, old_imports, new_imports)
    /\ pc' = "done"
    /\ UNCHANGED <<old, new, old_imports, new_imports>>

NextFunc == PyffFunction

SpecFunc == InitFunc /\ [][NextFunc]_vars

(***************************************************************************)
(* Rename detection (C6)                                                   *)
(***************************************************************************)
\* the imported local names the body of function summary f refers to under I
ReferencedImports(f, I) ==
    UNION {UsedImports(f.node.body[i], I) : i \in DOMAIN f.node.body}

RenamedOnly ==
    /\ old.name # new.name
    /\ old.node.body = new.node.body
    /\ ReferencedImports(old, old_imports) = ReferencedImports(new, new_imports)

\* C6: two functions with different names, structurally identical bodies and
\* the same referenced imported names compare to a diff whose old_name is the
\* old name, whose name is the new name and whose implementation set is
\* empty; with the arguments swapped old_name and name are swapped.
C6_RenameDetection ==
    (pc = "done" /\ RenamedOnly) =>
        /\ result = FunctionPyfference(new.name, {}, old.name)
        /\ pyff_function(new, old, new_imports, old_imports)
               = FunctionPyfference(old.name, {}, new.name)

\* C6 witness: f and g, both returning the imported name path, have been compared
C6_Witness ==
    /\ pc = "done"
    /\ RenamedOnly
    /\ old.name = "f" /\ new.name = "g"
    /\ old.node.body = <<Return(Name("path"))>>
    /\ ReferencedImports(old, old_imports) = {<<"path">>}
    /\ result.old_name = "f" /\ result.name = "g"

(***************************************************************************)
(* Module comparison: two parsed units go through pyff_module.  The units  *)
(* are sequences of top-level statements, MaxStmts of them in the two      *)
(* units together.                                                         *)
(***************************************************************************)
MaxStmts == 3

TopImports ==
    {Import(<<Alias(<<"m">>, NoName)>>),
     Import(<<Alias(<<"m">>, <<"B">>)>>),
     ImportFrom(<<"m">>, <<Alias(<<"B">>, NoName)>>),
     ImportFrom(NoName, <<Alias(<<"B">>, NoName)>>)}

TopFunctions ==
    {FunctionDef("f", <<Pass>>, << >>),
     FunctionDef("f", <<Return(Name("B"))>>, << >>)}

\* def __init__(self): self.x = A
InitMethod ==
    FunctionDef("__init__", <<Assign(<<Attribute(Name("self"), "x")>>, Name("A"))>>, << >>)

TopClasses ==
    {ClassDef("K", << >>, <<Pass>>),
     ClassDef("K", << >>, <<InitMethod>>),
     ClassDef("K", <<Name("B")>>, <<Pass>>),
     ClassDef("K", <<Attribute(Name("m"), "B")>>, <<Pass>>),
     ClassDef("K", <<Name("A"), Name("B")>>, <<Pass>>),
     ClassDef("K", <<Name("A"), Attribute(Name("m"), "B")>>, <<Pass>>)}

TopStmts == TopImports \cup TopFunctions \cup TopClasses

SeqsOfLen(S, n) == IF n = 0 THEN {<< >>} ELSE SeqsUpTo(S, n) \ SeqsUpTo(S, n - 1)

InitModule ==
    /\ \E k \in 0..MaxStmts :
         \E b1 \in SeqsOfLen(TopStmts, k), b2 \in SeqsUpTo(TopStmts, MaxStmts - k) :
             /\ old = ModuleSummary("old.py", Module(b1))
             /\ new = ModuleSummary("new.py", Module(b2))
    /\ old_imports = ImportedNames
    /\ new_imports = ImportedNames
    /\ result = None
    /\ pc = "start"

PyffModule ==
    /\ pc = "start"
    /\ old_imports' = extract(old.node)
    /\ new_imports' = extract(new.node)
    /\ result' = pyff_module(old, new)
    /\ pc' = "done"
    /\ UNCHANGED <<old, new>>

NextModule == PyffModule

SpecModule == InitModule /\ [][NextModule]_vars

(***************************************************************************)
(* Idempotence (C1)                                                        *)
(***************************************************************************)
\* the function summaries of the top-level functions of unit X
TopLevelFunctions(X) ==
    {FunctionSummary(X.node.body[i].name, X.node.body[i], FALSE) :
        i \in {j \in DOMAIN X.node.body : X.node.body[j].t = "FunctionDef"}}

IdempotentOn(X) ==
    LET I == extract(X.node)
    IN  /\ IsNone(pyff_module(X, X))
        /\ IsNone(pyff_functions(X.node, X.node, I, I))
        /\ IsNone(pyff_classes(X.node, X.node, I, I))
        /\ \A f \in TopLevelFunctions(X) :
               /\ IsNone(pyff_function(f, f, I, I))
               /\ \A i \in DOMAIN f.node.body :
                      IsNone(pyff_statement(f.node.body[i], f.node.body[i], I, I))

\* C1: comparing a unit with itself gives no difference: pyff_module,
\* pyff_functions and pyff_classes of X and X are None, and so are
\* pyff_function and pyff_statement of each function and statement of X
\* with itself.
C1_Idempotence ==
    pc = "done" => /\ IdempotentOn(old)
                   /\ IdempotentOn(new)
                   /\ (old.node = new.node => IsNone(result))

\* every base-class expression of the unit is a plain name
NameBasesOnly(X) ==
    \A i \in DOMAIN X.node.body :
        X.node.body[i].t = "ClassDef" =>
            \A j \in DOMAIN X.node.body[i].bases : X.node.body[i].bases[j].t = "Name"

\* idempotence on the units whose base classes are plain names
IdempotenceOnNameBases ==
    pc = "done" => /\ (NameBasesOnly(old) => IdempotentOn(old))
                   /\ (NameBasesOnly(new) => IdempotentOn(new))

(***************************************************************************)
(* Symmetry of detection (C2)                                              *)
(***************************************************************************)
ClassNames(X) ==
    {X.node.body[i].name : i \in {j \in DOMAIN X.node.body : X.node.body[j].t = "ClassDef"}}

\* diff(A, B) absent implies diff(B, A) absent, for one entity kind
SymmetricImports ==
    IsNone(compare(old_imports, new_imports)) => IsNone(compare(new_imports, old_imports))

SymmetricFunctions ==
    IsNone(pyff_functions(old.node, new.node, old_imports, new_imports))
        => IsNone(pyff_functions(new.node, old.node, new_imports, old_imports))

SymmetricClasses ==
    IsNone(pyff_classes(old.node, new.node, old_imports, new_imports))
        => IsNone(pyff_classes(new.node, old.node, new_imports, old_imports))

SymmetricModules == IsNone(result) => IsNone(pyff_module(new, old))

\* C2 as stated: for imports, functions, classes and modules, when the
\* difference of A and B is absent, the difference of B and A is absent.
C2_Symmetry ==
    pc = "done" =>
        SymmetricImports /\ SymmetricFunctions /\ SymmetricClasses /\ SymmetricModules

\* C2 amended: for imports and functions as stated; for classes and modules
\* provided every class defined in A is also defined in B (a class that B
\* no longer defines is not reported).
C2_SymmetryWithoutRemovedClasses ==
    pc = "done" =>
        /\ SymmetricImports
        /\ SymmetricFunctions
        /\ (ClassNames(old) \subseteq ClassNames(new) => SymmetricClasses /\ SymmetricModules)

\* C2 witness: two units that differ in their statements, both defining
\* class K, have been compared and no difference was found in either
\* direction.
C2_Witness ==
    /\ pc = "done"
    /\ old.node # new.node
    /\ ClassNames(old) = {"K"} /\ ClassNames(new) = {"K"}
    /\ IsNone(result)
    /\ IsNone(pyff_module(new, old))

(***************************************************************************)
(* Total completion (C5)                                                   *)
(***************************************************************************)
\* C5: pyff_module returns None or a ModulePyfference and never raises;
\* neither ImportedNames.compare with its reduce pass nor the extraction of
\* the classes of either unit raises.
C5_TotalCompletion ==
    pc = "done" =>
        /\ (IsNone(result) \/ result.tag = "ModulePyfference")
        /\ ~IsRaise(compare(old_imports, new_imports))
        /\ ~IsRaise(ClassesExtractor_visit(EmptyDict, old_imports, old.node.body))
        /\ ~IsRaise(ClassesExtractor_visit(EmptyDict, new_imports, new.node.body))

\* the three ways in which the comparison raises
C5_ReduceLookupFails == pc = "done" => ~(IsRaise(result) /\ result.exc = "KeyError")

C5_BaseExpressionFails == pc = "done" => ~(IsRaise(result) /\ result.exc = "AttributeError")

C5_RelativeImportFails == pc = "done" => ~(IsRaise(result) /\ result.exc = "Exception")

(***************************************************************************)
(* Multiple inheritance (C8)                                               *)
(***************************************************************************)
ClassDefs(X) == {X.node.body[i] : i \in {j \in DOMAIN X.node.body : X.node.body[j].t = "ClassDef"}}

\* extraction and comparison of class c alone, under the imports of its unit
ExtractsAndCompares(c, I) ==
    /\ ~IsRaise(ClassesExtractor_visit_ClassDef(EmptyDict, I, c))
    /\ ~IsRaise(pyff_classes(Module(<<c>>), Module(<<c>>), I, I))
    /\ ~IsRaise(pyff_classes(Module(<< >>), Module(<<c>>), I, I))

\* both renderings of a summary raise exactly when it has more than one base
RendersUnlessMultiple(cs) ==
    LET legacy == summary_ClassSummary(cs.definition.name, Cardinality(cs.methods),
                                       Cardinality(private_methods(cs)), cs.baseclasses)
        rendered == ClassSummary_str(cs)
        text == rendered.pieces
    IN  /\ IsRaise(rendered) <=> Len(cs.baseclasses) > 1
        /\ IsRaise(summary_ClassSummary_str(legacy)) <=> Len(cs.baseclasses) > 1
        /\ Len(cs.baseclasses) = 0 => text[5] = "with"
        /\ Len(cs.baseclasses) = 1 =>
               text[5] = "derived from" /\ text[6] \in {"local", "imported"}
                                        /\ text[8] = cs.baseclasses[1].name

MultipleInheritanceOn(X, I) ==
    /\ \A c \in {d \in ClassDefs(X) : Len(d.bases) >= 2} : ExtractsAndCompares(c, I)
    /\ \A c \in ClassDefs(X) :
           LET classes == ClassesExtractor_visit_ClassDef(EmptyDict, I, c)
           IN  ~IsRaise(classes) => RendersUnlessMultiple(classes[c.name])

\* C8: a class with two or more base classes is extracted and compared
\* without error, and rendering a class summary raises exactly when the
\* summary has more than one base class; without a base the text names no
\* base, with one base it says "derived from" the local or imported base.
C8_MultipleInheritance ==
    pc = "done" =>
        /\ MultipleInheritanceOn(old, old_imports)
        /\ MultipleInheritanceOn(new, new_imports)
        /\ ((\A c \in ClassDefs(old) \cup ClassDefs(new) : Len(c.bases) >= 2)
             /\ ClassDefs(new) # {} /\ old_imports = new_imports
                => ~IsRaise(result))

\* the same on the units whose base-class expressions are plain names
MultipleInheritanceOnNameBases ==
    (pc = "done" /\ NameBasesOnly(old) /\ NameBasesOnly(new)) => C8_MultipleInheritance

(***************************************************************************)
(* pyff.py: the earlier pyff_function, which checks its two texts before   *)
(* it compares them                                                        *)
(***************************************************************************)
pyfference_FunctionPyfference(name, names, implementation) ==
    [tag |-> "pyfference.FunctionPyfference", name |-> name, names |-> names,
     implementation |-> implementation]

RECURSIVE BodiesDiffer(_, _)
\* the zip_longest loop of _pyff_function_ast: TRUE at the first pair that
\* differs, FALSE when there is none; dump(None) raises TypeError when one
\* body ends before the other
BodiesDiffer(first_body, second_body) ==
    IF first_body = << >> /\ second_body = << >> THEN [tag |-> "bool", value |-> FALSE]
    ELSE IF first_body = << >> \/ second_body = << >> THEN Raise("TypeError")
    ELSE IF Head(first_body) # Head(second_body) THEN [tag |-> "bool", value |-> TRUE]
    ELSE BodiesDiffer(Tail(first_body), Tail(second_body))

\* called without import names
pyff_function_ast(first, second) ==
    LET names == IF first.name # second.name THEN <<first.name, second.name>> ELSE << >>
        implementation == BodiesDiffer(first.body, second.body)
    IN  IF IsRaise(implementation) THEN implementation
        ELSE IF names # << >> \/ implementation.value
        THEN pyfference_FunctionPyfference(first.name, names, implementation.value)
        ELSE None

pyff_pyff_function(first, second) ==
    LET first_ast == first.body
        second_ast == second.body
    IN  IF Len(first_ast) # 1 \/ first_ast[1].t # "FunctionDef" THEN Raise("ValueError")
        ELSE IF Len(second_ast) # 1 \/ second_ast[1].t # "FunctionDef" THEN Raise("ValueError")
        ELSE pyff_function_ast(first_ast[1], second_ast[1])

(***************************************************************************)
(* Comparison of two function texts: each text is the Module its parse     *)
(* gives, at most MaxTopLevel statements long.                             *)
(***************************************************************************)
MaxTopLevel == 2

CodeStatements ==
    {FunctionDef("f", <<Pass>>, << >>),
     FunctionDef("g", <<Pass>>, << >>),
     FunctionDef("g", <<Return(Name("x"))>>, << >>),
     ClassDef("K", << >>, <<Pass>>),
     Expr(Name("x"))}

CodeTexts == {Module(b) : b \in SeqsUpTo(CodeStatements, MaxTopLevel)}

InitCode ==
    /\ old \in CodeTexts
    /\ new \in CodeTexts
    /\ old_imports = ImportedNames
    /\ new_imports = ImportedNames
    /\ result = None
    /\ pc = "start"

PyffFunctionCode ==
    /\ pc = "start"
    /\ result' = pyff_function_code(old, new, old_imports, new_imports)
    /\ pc' = "pyff_function_code"
    /\ UNCHANGED <<old, new, old_imports, new_imports>>

PyffFunctionText ==
    /\ pc = "start"
    /\ result' = pyff_pyff_function(old, new)
    /\ pc' = "pyff_function"
    /\ UNCHANGED <<old, new, old_imports, new_imports>>

NextCode == PyffFunctionCode \/ PyffFunctionText

SpecCode == InitCode /\ [][NextCode]_vars

(***************************************************************************)
(* The exactly-one-function contract (C9)                                  *)
(***************************************************************************)
\* the text is one top-level statement, a function definition
SingleFunction(text) == Len(text.body) = 1 /\ text.body[1].t = "FunctionDef"

TheFunction(text) == FunctionSummary(text.body[1].name, text.body[1], FALSE)

\* C9: pyff_function_code raises ValueError when the old or the new text is
\* not exactly one top-level statement that is a function definition, and
\* otherwise gives the comparison of the function of old with that of new.
C9_ExactlyOneFunction ==
    pc = "pyff_function_code" =>
        IF SingleFunction(old) /\ SingleFunction(new)
        THEN result = pyff_function(TheFunction(old), TheFunction(new), old_imports, new_imports)
        ELSE result = Raise("ValueError")

\* what pyff_function_code does: ValueError exactly when the old text holds
\* no function, or the functions of the old text but its last together with
\* those of the new text are none
RaisesWhenNoFunctionFound ==
    pc = "pyff_function_code" /\ ~(SingleFunction(old) /\ SingleFunction(new)) =>
        (result = Raise("ValueError")
            <=> \/ FunctionsExtractor_visit(<< >>, old) = << >>
                \/ /\ Len(FunctionsExtractor_visit(<< >>, old)) = 1
                   /\ FunctionsExtractor_visit(<< >>, new) = << >>)

\* the earlier pyff_function keeps the contract on the texts
TextContractOfPyffFunction ==
    pc = "pyff_function" =>
        (result = Raise("ValueError") <=> ~(SingleFunction(old) /\ SingleFunction(new)))

(***************************************************************************)
(* The diff objects on their own: result is the object, built by a         *)
(* constructor and changed by the methods of its class.                    *)
(***************************************************************************)
MaxRecords == 2

DiffImports ==
    {ImportedName(<<"os">>, Import(<<Alias(<<"os">>, NoName)>>), Alias(<<"os">>, NoName)),
     ImportedName(<<"p">>, Import(<<Alias(<<"sys">>, <<"p">>)>>), Alias(<<"sys">>, <<"p">>))}

DiffFromImports ==
    {ImportedName(<<"path">>, ImportFrom(<<"os">>, <<Alias(<<"path">>, NoName)>>),
                  Alias(<<"path">>, NoName)),
     ImportedName(<<"path">>, ImportFrom(NoName, <<Alias(<<"path">>, NoName)>>),
                  Alias(<<"path">>, NoName))}

DiffImplementations ==
    {{}, {FunctionImplementationChange},
     {ExternalUsageChange({}, {<<"path">>})},
     {StatementChange(add_semantically_irrelevant_change(
          StatementPyfference,
          ExternalNameUsageChange({SingleExternalNameUsageChange(<<"path">>, <<"p">>)})))}}

DiffFunctionDiffs == {FunctionPyfference("f", i, o) : i \in DiffImplementations, o \in {NoStr, "g"}}

DiffSummaries == {EmptyDict, "h" :> FunctionSummary("h", FunctionDef("h", <<Pass>>, << >>), FALSE)}

DiffChanged == {EmptyDict} \cup {"f" :> d : d \in DiffFunctionDiffs}

DiffFunctionsDiffs == {FunctionsPyfference(n, c, r) : n \in DiffSummaries, c \in DiffChanged, r \in DiffSummaries}

DiffAttributes ==
    {None, AttributesPyfference({}, {}), AttributesPyfference({"x"}, {}), AttributesPyfference({}, {"y"})}

DiffClassDiffs ==
    {ClassPyfference("K", a, m) :
        a \in DiffAttributes,
        m \in {None, FunctionsPyfference(EmptyDict, EmptyDict, EmptyDict),
               FunctionsPyfference(EmptyDict, "f" :> FunctionPyfference("f", {}, "g"), EmptyDict)}}

DiffClassSummaries == {{}, {ClassSummary({}, ClassDef("K", << >>, <<Pass>>), {}, << >>)}}

DiffClassesDiffs ==
    {ClassesPyfference(n, c) :
        n \in DiffClassSummaries,
        c \in {EmptyDict, "K" :> ClassPyfference("K", AttributesPyfference({"x"}, {}), None)}}

\* the number of entries an ImportsPyfference holds
Recorded(d) ==
    Cardinality(d.new_imports) + Cardinality(d.removed_imports)
    + Cardinality(DOMAIN d.fi_new) + Cardinality(DOMAIN d.fi_removed)
    + Cardinality(d.fi_new_modules) + Cardinality(d.fi_removed_modules)

InitDiff ==
    /\ old = NoUnit
    /\ new = NoUnit
    /\ old_imports = ImportedNames
    /\ new_imports = ImportedNames
    /\ result = None
    /\ pc = "start"

\* result becomes object d of class d.tag
Construct(d) ==
    /\ pc = "start"
    /\ result' = d
    /\ pc' = d.tag
    /\ UNCHANGED <<old, new, old_imports, new_imports>>

\* a method of the class of result changes result to d
Manipulate(class, d) ==
    /\ pc = class
    /\ result' = d
    /\ pc' = IF IsRaise(d) THEN "raised" ELSE pc
    /\ UNCHANGED <<old, new, old_imports, new_imports>>

ImportsPyfference_init == Construct(ImportsPyfference)

ImportsPyfference_record ==
    /\ pc = "ImportsPyfference"
    /\ Recorded(result) < MaxRecords
    /\ \/ \E n \in DiffImports : Manipulate("ImportsPyfference", new_import(result, n))
       \/ \E n \in DiffImports : Manipulate("ImportsPyfference", removed_import(result, n))
       \/ \E n \in DiffFromImports : Manipulate("ImportsPyfference", new_from_import(result, n))
       \/ \E n \in DiffFromImports : Manipulate("ImportsPyfference", removed_from_import(result, n))
       \/ \E m \in ImpModules : Manipulate("ImportsPyfference", new_fromimport_modules(result, {m}))
       \/ \E m \in ImpModules :
              Manipulate("ImportsPyfference", removed_fromimport_modules(result, {m}))

ImportsPyfference_reduce == Manipulate("ImportsPyfference", reduce(result))

FunctionPyfference_init == \E d \in DiffFunctionDiffs : Construct(d)

FunctionPyfference_set_noun == Manipulate("FunctionPyfference", FunctionPyfference_set_method(result))

FunctionsPyfference_init == \E d \in DiffFunctionsDiffs : Construct(d)

\* result.set_method(): old keeps the object as it was before the call, new
\* the object as the call left it
FunctionsPyfference_set_nouns ==
    /\ pc = "FunctionsPyfference"
    /\ old' = result
    /\ new' = FunctionsPyfference_set_method(result)
    /\ result' = FunctionsPyfference_set_method(result)
    /\ UNCHANGED <<pc, old_imports, new_imports>>

FunctionsPyfference_simplified ==
    Manipulate("FunctionsPyfference", FunctionsPyfference_simplify(result).self)

ClassPyfference_init == \E d \in DiffClassDiffs : Construct(d)

ClassPyfference_rendered == Manipulate("ClassPyfference", ClassPyfference_str(result))

ClassesPyfference_init == \E d \in DiffClassesDiffs : Construct(d)

ModulePyfference_init ==
    \E i \in {None, ImportsPyfference, new_import(ImportsPyfference, CHOOSE n \in DiffImports : TRUE)},
       c \in {None} \cup DiffClassesDiffs,
       f \in {None, FunctionsPyfference(EmptyDict, EmptyDict, EmptyDict),
              FunctionsPyfference(EmptyDict, "f" :> FunctionPyfference("f", {}, NoStr), EmptyDict),
              FunctionsPyfference(EmptyDict, "f" :> FunctionPyfference("f", {}, "g"), EmptyDict)} :
        Construct(ModulePyfference(i, c, f))

ModulePyfference_simplified ==
    Manipulate("ModulePyfference", ModulePyfference_simplify(result).self)

\* d.simplify(): the object after the call and the value returned
simplify(d) ==
    IF d.tag = "ImportsPyfference" THEN [self |-> d, value |-> simplify_imports(d)]
    ELSE IF d.tag = "FunctionPyfference" THEN [self |-> d, value |-> FunctionPyfference_simplify(d)]
    ELSE IF d.tag = "FunctionsPyfference" THEN FunctionsPyfference_simplify(d)
    ELSE IF d.tag = "ClassesPyfference" THEN [self |-> d, value |-> ClassesPyfference_simplify(d)]
    ELSE ModulePyfference_simplify(d)

\* a caller runs result.simplify(): old keeps the object as it was before
\* the call, new is the value returned, result the object after the call
Simplify ==
    /\ pc \in {"ImportsPyfference", "FunctionPyfference", "FunctionsPyfference",
               "ClassesPyfference", "ModulePyfference"}
    /\ old' = result
    /\ new' = simplify(result).value
    /\ result' = simplify(result).self
    /\ pc' = "simplified"
    /\ UNCHANGED <<old_imports, new_imports>>

NextDiff ==
    \/ ImportsPyfference_init
    \/ ImportsPyfference_record
    \/ ImportsPyfference_reduce
    \/ FunctionPyfference_init
    \/ FunctionPyfference_set_noun
    \/ FunctionsPyfference_init
    \/ FunctionsPyfference_set_nouns
    \/ FunctionsPyfference_simplified
    \/ ClassPyfference_init
    \/ ClassPyfference_rendered
    \/ ClassesPyfference_init
    \/ ModulePyfference_init
    \/ ModulePyfference_simplified
    \/ Simplify

SpecDiff == InitDiff /\ [][NextDiff]_vars

(***************************************************************************)
(* Truthiness (C10)                                                        *)
(***************************************************************************)
DiffTypes ==
    {"ImportsPyfference", "FunctionPyfference", "FunctionsPyfference",
     "ClassPyfference", "ClassesPyfference", "ModulePyfference"}

\* the object holds a recorded change in one of its own collections or
\* fields; a ModulePyfference holds one when it holds a part
CarriesChange(d) ==
    IF d.tag = "ImportsPyfference"
    THEN \/ d.new_imports # {} \/ d.removed_imports # {}
         \/ DOMAIN d.fi_new # {} \/ DOMAIN d.fi_removed # {}
         \/ d.fi_new_modules # {} \/ d.fi_removed_modules # {}
         \/ DOMAIN d.changed_to_import # {} \/ DOMAIN d.changed_to_fromimport # {}
    ELSE IF d.tag = "FunctionPyfference" THEN d.old_name # NoStr \/ d.implementation # {}
    ELSE IF d.tag = "FunctionsPyfference"
    THEN DOMAIN d.new # {} \/ DOMAIN d.changed # {} \/ DOMAIN d.removed # {}
    ELSE IF d.tag = "ClassPyfference"
    THEN \/ (~IsNone(d.attributes) /\ (d.attributes.removed # {} \/ d.attributes.new # {}))
         \/ ~IsNone(d.methods)
    ELSE IF d.tag = "ClassesPyfference" THEN d.new # {} \/ DOMAIN d.changed # {}
    ELSE \/ ~IsNone(d.imports) \/ ~IsNone(d.classes) \/ ~IsNone(d.functions)
         \/ d.other # << >>

\* C10: a diff object of any of the six diff types, after its construction
\* and after every later call of its methods, is truthy exactly when it
\* carries at least one recorded change.
C10_Truthiness ==
    pc \in DiffTypes => (Truthy(result) <=> CarriesChange(result))

\* the same for ImportsPyfference alone, the class that defines __bool__
TruthinessOfImportsPyfference ==
    pc = "ImportsPyfference" => (Truthy(result) <=> CarriesChange(result))

(***************************************************************************)
(* simplify() (C11)                                                        *)
(***************************************************************************)
\* the function diff holds a recorded change
FunctionHasChange(d) == d.old_name # NoStr \/ d.implementation # {}

\* the functions diff holds a recorded change, in itself or nested
FunctionsHasChange(d) ==
    \/ DOMAIN d.new # {} \/ DOMAIN d.removed # {}
    \/ \E f \in DOMAIN d.changed : FunctionHasChange(d.changed[f])

ClassHasChange(d) ==
    \/ (~IsNone(d.attributes) /\ (d.attributes.removed # {} \/ d.attributes.new # {}))
    \/ (~IsNone(d.methods) /\ FunctionsHasChange(d.methods))

ClassesHasChange(d) ==
    d.new # {} \/ \E k \in DOMAIN d.changed : ClassHasChange(d.changed[k])

HasChange(d) ==
    IF d.tag = "ImportsPyfference" THEN CarriesChange(d)
    ELSE IF d.tag = "FunctionPyfference" THEN FunctionHasChange(d)
    ELSE IF d.tag = "FunctionsPyfference" THEN FunctionsHasChange(d)
    ELSE IF d.tag = "ClassesPyfference" THEN ClassesHasChange(d)
    ELSE \/ (~IsNone(d.imports) /\ CarriesChange(d.imports))
         \/ (~IsNone(d.classes) /\ ClassesHasChange(d.classes))
         \/ (~IsNone(d.functions) /\ FunctionsHasChange(d.functions))
         \/ d.other # << >>

\* after holds every recorded change of before, and what it lacks of
\* before carried no change
FunctionsPreserved(before, after) ==
    /\ after.new = before.new
    /\ after.removed = before.removed
    /\ DOMAIN after.changed \subseteq DOMAIN before.changed
    /\ \A f \in DOMAIN before.changed :
           IF FunctionHasChange(before.changed[f])
           THEN f \in DOMAIN after.changed /\ after.changed[f] = before.changed[f]
           ELSE TRUE

ClassesPreserved(before, after) ==
    /\ after.new = before.new
    /\ DOMAIN after.changed \subseteq DOMAIN before.changed
    /\ \A k \in DOMAIN before.changed :
           ClassHasChange(before.changed[k]) =>
               (k \in DOMAIN after.changed /\ after.changed[k] = before.changed[k])

\* part is "imports", "classes" or "functions"
PartPreserved(before, after, part) ==
    IF IsNone(before[part]) THEN IsNone(after[part])
    ELSE IF IsNone(after[part])
    THEN ~HasChange(before[part])
    ELSE IF part = "imports" THEN after[part] = before[part]
    ELSE IF part = "classes" THEN ClassesPreserved(before[part], after[part])
    ELSE FunctionsPreserved(before[part], after[part])

Preserved(before, after) ==
    /\ after.tag = before.tag
    /\ IF before.tag \in {"ImportsPyfference", "FunctionPyfference"} THEN after = before
       ELSE IF before.tag = "FunctionsPyfference" THEN FunctionsPreserved(before, after)
       ELSE IF before.tag = "ClassesPyfference" THEN ClassesPreserved(before, after)
       ELSE /\ after.other = before.other
            /\ \A part \in {"imports", "classes", "functions"} :
                   PartPreserved(before, after, part)

SimplifyPreserves ==
    /\ IsNone(new) <=> ~HasChange(old)
    /\ ~IsNone(new) => Preserved(old, new)

\* C11: simplify() of a ModulePyfference, ClassesPyfference,
\* FunctionsPyfference, FunctionPyfference or ImportsPyfference removes only
\* nested diffs that carry no change, returns None exactly when no recorded
\* change remains, and otherwise returns the diff with every recorded
\* change (new, removed and changed entries, changed classes included)
\* still present.
C11_SimplifyPreservesChanges == pc = "simplified" => SimplifyPreserves

\* the object holds a changed class, in itself or in its classes part
HoldsChangedClass(d) ==
    \/ (d.tag = "ClassesPyfference" /\ DOMAIN d.changed # {})
    \/ (d.tag = "ModulePyfference" /\ ~IsNone(d.classes) /\ DOMAIN d.classes.changed # {})

\* the same on the objects that hold no changed class
SimplifyPreservesWithoutChangedClasses ==
    (pc = "simplified" /\ ~HoldsChangedClass(old)) => SimplifyPreserves

(***************************************************************************)
(* pyff_classes and pyff_functions on two units: the statements of the old *)
(* and of the new unit are drawn from imports, function definitions and    *)
(* class definitions; one call compares the classes, the other the         *)
(* functions, each under the import models extracted from the units.       *)
(***************************************************************************)
MaxUnit == 3

\* from m import A;  from . import A
UnitImports ==
    {ImportFrom(<<"m">>, <<Alias(<<"A">>, NoName)>>),
     ImportFrom(NoName, <<Alias(<<"A">>, NoName)>>)}

UnitFunctions ==
    {FunctionDef("f", <<Pass>>, << >>),
     FunctionDef("f", <<Return(Name("A"))>>, << >>),
     FunctionDef("g", <<Pass>>, << >>)}

\* def __init__(self): self.y = A
OtherInitMethod ==
    FunctionDef("__init__", <<Assign(<<Attribute(Name("self"), "y")>>, Name("A"))>>, << >>)

UnitClasses ==
    {ClassDef("A", << >>, <<Pass>>),
     ClassDef("A", << >>, <<InitMethod>>),
     ClassDef("A", << >>, <<OtherInitMethod>>),
     ClassDef("B", <<Name("A")>>, <<Pass>>),
     ClassDef("B", <<Attribute(Name("m"), "A")>>, <<Pass>>)}

UnitStmts == UnitImports \cup UnitFunctions \cup UnitClasses

InitUnits ==
    /\ \E k \in 0..MaxUnit :
         \E b1 \in SeqsOfLen(UnitStmts, k), b2 \in SeqsUpTo(UnitStmts, MaxUnit - k) :
             /\ old = Module(b1)
             /\ new = Module(b2)
    /\ old_imports = ImportedNames
    /\ new_imports = ImportedNames
    /\ result = None
    /\ pc = "start"

PyffClasses ==
    /\ pc = "start"
    /\ old_imports' = extract(old)
    /\ new_imports' = extract(new)
    /\ result' = pyff_classes(old, new, extract(old), extract(new))
    /\ pc' = "pyff_classes"
    /\ UNCHANGED <<old, new>>

PyffFunctions ==
    /\ pc = "start"
    /\ old_imports' = extract(old)
    /\ new_imports' = extract(new)
    /\ result' = pyff_functions(old, new, extract(old), extract(new))
    /\ pc' = "pyff_functions"
    /\ UNCHANGED <<old, new>>

\* pyff_class on the summaries two walkers hold for a class of both units:
\* old and new become the two summaries
PyffClass ==
    /\ pc = "start"
    /\ ~IsRaise(ClassesExtractor_visit(EmptyDict, extract(old), old.body))
    /\ ~IsRaise(ClassesExtractor_visit(EmptyDict, extract(new), new.body))
    /\ \E klass \in DOMAIN ClassesExtractor_visit(EmptyDict, extract(old), old.body)
                     \cap DOMAIN ClassesExtractor_visit(EmptyDict, extract(new), new.body) :
           /\ old' = ClassesExtractor_visit(EmptyDict, extract(old), old.body)[klass]
           /\ new' = ClassesExtractor_visit(EmptyDict, extract(new), new.body)[klass]
           /\ result' = pyff_class(
                  ClassesExtractor_visit(EmptyDict, extract(old), old.body)[klass],
                  ClassesExtractor_visit(EmptyDict, extract(new), new.body)[klass],
                  extract(old), extract(new))
    /\ old_imports' = extract(old)
    /\ new_imports' = extract(new)
    /\ pc' = "pyff_class"

NextUnits == PyffClasses \/ PyffFunctions \/ PyffClass

SpecUnits == InitUnits /\ [][NextUnits]_vars

(***************************************************************************)
(* Module-level class reporting (C12)                                      *)
(***************************************************************************)
\* the names of the classes defined at the top level of unit X
ClassNamesIn(X) == {X.body[i].name : i \in {j \in DOMAIN X.body : X.body[j].t = "ClassDef"}}

\* the last definition of class k in unit X, the one the unit ends up with
LastClassDef(X, k) ==
    X.body[CHOOSE i \in DOMAIN X.body :
               /\ X.body[i].t = "ClassDef" /\ X.body[i].name = k
               /\ \A j \in DOMAIN X.body :
                      (X.body[j].t = "ClassDef" /\ X.body[j].name = k) => j <= i]

\* what pyff_class returns for class k of both units
ClassDifference(k) ==
    pyff_class(ClassesExtractor_visit(EmptyDict, old_imports, <<LastClassDef(old, k)>>)[k],
               ClassesExtractor_visit(EmptyDict, new_imports, <<LastClassDef(new, k)>>)[k],
               old_imports, new_imports)

\* the report r names as new the classes of NewOnly and as changed the
\* classes of Changed, and is None when both are empty
ReportsClasses(r, NewOnly, Changed) ==
    IF NewOnly = {} /\ Changed = {} THEN IsNone(r)
    ELSE /\ ~IsNone(r) /\ ~IsRaise(r)
         /\ r.tag = "ClassesPyfference"
         /\ {c.definition.name : c \in r.new} = NewOnly
         /\ Cardinality(r.new) = Cardinality(NewOnly)
         /\ DOMAIN r.changed = Changed

ClassReporting ==
    ReportsClasses(result,
                   ClassNamesIn(new) \ ClassNamesIn(old),
                   {k \in ClassNamesIn(old) \cap ClassNamesIn(new) :
                        ~IsNone(ClassDifference(k))})

\* C12: pyff_classes reports as new exactly the classes whose name occurs
\* in the new module and not in the old, as changed exactly the names of
\* both modules whose pyff_class result is not None, never a class of the
\* old module alone, and returns None exactly when there is neither a new
\* nor a changed class.
C12_ClassReporting == pc = "pyff_classes" => ClassReporting

\* the same whenever pyff_classes returns
ClassReportingWhenReturned == (pc = "pyff_classes" /\ ~IsRaise(result)) => ClassReporting

\* pyff_classes raises only the way the extraction of a dotted base class
\* or the qualification of a relative import raises
ClassReportingRaises ==
    (pc = "pyff_classes" /\ IsRaise(result)) => result.exc \in {"AttributeError", "Exception"}

(***************************************************************************)
(* Function partition (C13)                                                *)
(***************************************************************************)
\* the names of the functions defined at the top level of unit X
FunctionNamesIn(X) ==
    {X.body[i].name : i \in {j \in DOMAIN X.body : X.body[j].t = "FunctionDef"}}

\* the last definition of function f in unit X
LastFunctionDef(X, f) ==
    X.body[CHOOSE i \in DOMAIN X.body :
               /\ X.body[i].t = "FunctionDef" /\ X.body[i].name = f
               /\ \A j \in DOMAIN X.body :
                      (X.body[j].t = "FunctionDef" /\ X.body[j].name = f) => j <= i]

\* what pyff_function returns for function f of both units
FunctionDifference(f) ==
    pyff_function(FunctionSummary(f, LastFunctionDef(old, f), FALSE),
                  FunctionSummary(f, LastFunctionDef(new, f), FALSE),
                  old_imports, new_imports)

\* r holds the three key sets, pairwise disjoint, and is None when all
\* three are empty
Partitions(r, NewOnly, OldOnly, Changed) ==
    IF NewOnly = {} /\ OldOnly = {} /\ Changed = {} THEN IsNone(r)
    ELSE /\ ~IsNone(r) /\ ~IsRaise(r)
         /\ r.tag = "FunctionsPyfference"
         /\ DOMAIN r.new = NewOnly
         /\ DOMAIN r.removed = OldOnly
         /\ DOMAIN r.changed = Changed
         /\ DOMAIN r.new \cap DOMAIN r.removed = {}
         /\ DOMAIN r.new \cap DOMAIN r.changed = {}
         /\ DOMAIN r.removed \cap DOMAIN r.changed = {}

FunctionPartition ==
    Partitions(result,
               FunctionNamesIn(new) \ FunctionNamesIn(old),
               FunctionNamesIn(old) \ FunctionNamesIn(new),
               {f \in FunctionNamesIn(old) \cap FunctionNamesIn(new) :
                    ~IsNone(FunctionDifference(f))})

\* C13: in the result of pyff_functions the keys of new are the function
\* names of the new unit alone, the keys of removed those of the old unit
\* alone, the keys of changed the names of both units whose pyff_function
\* result is not None; the three key sets are pairwise disjoint and the
\* result is None exactly when all three are empty.
C13_FunctionPartition == pc = "pyff_functions" => FunctionPartition

\* the same whenever pyff_functions returns
FunctionPartitionWhenReturned == (pc = "pyff_functions" /\ ~IsRaise(result)) => FunctionPartition

\* pyff_functions raises only the way the qualification of a name bound by
\* a relative import raises
FunctionPartitionRaises ==
    (pc = "pyff_functions" /\ IsRaise(result)) => result.exc = "Exception"

(***************************************************************************)
(* Base-class classification (C14)                                         *)
(***************************************************************************)
\* the class definitions at the top level of unit X
ClassDefsIn(X) == {X.body[i] : i \in {j \in DOMAIN X.body : X.body[j].t = "ClassDef"}}

\* the name a base-class expression refers to, as a dotted name
RECURSIVE BaseName(_)
BaseName(b) == IF b.t = "Name" THEN <<b.id>> ELSE Append(BaseName(b.value), b.attr)

\* the extraction of class c under import model I tags every base of c:
\* imported when its name is a key of I, local otherwise
Classified(c, I) ==
    LET classes == ClassesExtractor_visit_ClassDef(EmptyDict, I, c)
    IN  /\ ~IsRaise(classes)
        /\ Len(classes[c.name].baseclasses) = Len(c.bases)
        /\ \A j \in DOMAIN c.bases :
               LET tagged == classes[c.name].baseclasses[j]
               IN  /\ <<tagged.name>> = BaseName(c.bases[j])
                   /\ tagged.tag = IF BaseName(c.bases[j]) \in DOMAIN I.names
                                   THEN "ImportedBaseClass" ELSE "LocalBaseClass"

\* old unit `class A: pass`, new unit `class A: pass` and `class B(A): pass`
LocalBaseCase ==
    /\ old = Module(<<ClassDef("A", << >>, <<Pass>>)>>)
    /\ new = Module(<<ClassDef("A", << >>, <<Pass>>), ClassDef("B", <<Name("A")>>, <<Pass>>)>>)

\* one new class B derived from local A, no changed class
LocalBaseReport ==
    /\ ~IsNone(result) /\ ~IsRaise(result)
    /\ result.new = {ClassSummary({}, ClassDef("B", <<Name("A")>>, <<Pass>>), {},
                                  <<LocalBaseClass("A")>>)}
    /\ DOMAIN result.changed = {}

\* C14: for every class definition each base class is tagged imported
\* exactly when its name is a key of the import model of its unit and local
\* otherwise; so when the new module adds `class B(A)` next to an unchanged
\* local `class A`, the diff reports exactly one new class B derived from
\* local A and no changed entry for A.
C14_BaseClassClassification ==
    pc = "pyff_classes" =>
        /\ \A c \in ClassDefsIn(old) : Classified(c, old_imports)
        /\ \A c \in ClassDefsIn(new) : Classified(c, new_imports)
        /\ LocalBaseCase => LocalBaseReport

\* every base of c is a plain name
NameBases(c) == \A j \in DOMAIN c.bases : c.bases[j].t = "Name"

\* the same for the class definitions whose bases are plain names
ClassificationOfNameBases ==
    pc = "pyff_classes" =>
        /\ \A c \in ClassDefsIn(old) : NameBases(c) => Classified(c, old_imports)
        /\ \A c \in ClassDefsIn(new) : NameBases(c) => Classified(c, new_imports)
        /\ LocalBaseCase => LocalBaseReport

\* the case of the local base class is reached and reported
LocalBaseCaseReported == pc = "pyff_classes" /\ LocalBaseCase /\ LocalBaseReport

(***************************************************************************)
(* Canonical names (C15)                                                   *)
(***************************************************************************)
\* the ImportedName objects import model I holds
Bindings(I) == {I.names[k] : k \in DOMAIN I.names}

\* the expression that writes out dotted path: a.b.c is ((a).b).c
RECURSIVE Written(_)
Written(path) ==
    IF Len(path) = 1 THEN Name(path[1])
    ELSE Attribute(Written(SubSeq(path, 1, Len(path) - 1)), path[Len(path)])

\* a direct import, or a from-import that names its origin module
NamesOrigin(n) == is_import(n) \/ n.node.module # NoName

\* the dotted module path of a direct import, origin module and original
\* name of a from-import; the alias takes no part
PathImported(n) ==
    IF is_import(n) THEN n.alias.name ELSE n.node.module \o n.alias.name

\* a and b bind the same import under different local names
DifferInAliasOnly(a, b) ==
    /\ a.node.t = b.node.t
    /\ a.alias.name = b.alias.name
    /\ a.alias.asname # b.alias.asname
    /\ is_import_from(a) => a.node.module = b.node.module

\* both have a canonical_ast, and the two are structurally equal
SameCanonical(a, b) ==
    /\ canonical_name(a) = canonical_name(b)
    /\ ~IsRaise(canonical_ast(a)) /\ ~IsRaise(canonical_ast(b))
    /\ canonical_ast(a) = canonical_ast(b)

\* C15: the canonical_name of every ImportedName is the dotted module path
\* for a direct import and origin module followed by original name for a
\* from-import, whatever the alias; two bindings that differ only in their
\* alias have the same canonical_name and structurally equal canonical_ast.
C15_CanonicalNameAliasIndependent ==
    /\ \A n \in Bindings(old_imports) \cup Bindings(new_imports) :
           NamesOrigin(n) => canonical_name(n) = PathImported(n)
    /\ \A a \in Bindings(old_imports), b \in Bindings(new_imports) :
           DifferInAliasOnly(a, b) => SameCanonical(a, b)

\* the same for the bindings that name their origin, whose canonical_ast
\* is moreover the expression that writes out the canonical name
CanonicalWhenOriginNamed ==
    /\ \A n \in Bindings(old_imports) \cup Bindings(new_imports) :
           NamesOrigin(n) => /\ canonical_name(n) = PathImported(n)
                             /\ canonical_ast(n) = Written(PathImported(n))
    /\ \A a \in Bindings(old_imports), b \in Bindings(new_imports) :
           (NamesOrigin(a) /\ DifferInAliasOnly(a, b)) => SameCanonical(a, b)

\* `import os.path` on one side and `import os.path as p` on the other
AliasedPairCompared ==
    \E a \in Bindings(old_imports), b \in Bindings(new_imports) :
        /\ DifferInAliasOnly(a, b) /\ SameCanonical(a, b)
        /\ canonical_name(a) = <<"os", "path">>

\* a relative from-import: the name puts the text None for the module, and
\* there is no canonical_ast
RelativeImportCanonical ==
    \A n \in Bindings(old_imports) \cup Bindings(new_imports) :
        ~NamesOrigin(n) => /\ canonical_name(n) = <<"None">> \o n.alias.name
                           /\ canonical_ast(n) = Raise("Exception")

(***************************************************************************)
(* Shadowing (C16)                                                         *)
(***************************************************************************)
\* the name an import alias binds in the importing scope
LocalName(alias) == IF alias.asname # NoName THEN alias.asname ELSE alias.name

\* the places <<i, j>> of unit X: alias j of import statement i
ImportPlaces(X) ==
    {<<i, j>> \in (DOMAIN X.body) \X (1..Len(X.body) + 1) :
        /\ X.body[i].t \in {"Import", "ImportFrom"}
        /\ j \in DOMAIN X.body[i].names}

\* place q comes at or after place r in the order the statements run
AtOrAfter(q, r) == q[1] > r[1] \/ (q[1] = r[1] /\ q[2] >= r[2])

\* the last place of X that binds local name k
LastBinder(X, k) ==
    CHOOSE q \in ImportPlaces(X) :
        /\ LocalName(X.body[q[1]].names[q[2]]) = k
        /\ \A r \in ImportPlaces(X) :
               LocalName(X.body[r[1]].names[r[2]]) = k => AtOrAfter(q, r)

\* I is the import model of X: one key per local name, bound to the
\* ImportedName of the last statement that binds it, and the non-empty
\* origin modules of the from-imports
Shadowing(X, I) ==
    /\ DOMAIN I.names = {LocalName(X.body[q[1]].names[q[2]]) : q \in ImportPlaces(X)}
    /\ \A k \in DOMAIN I.names :
           LET q == LastBinder(X, k)
           IN  I.names[k] = ImportedName(k, X.body[q[1]], X.body[q[1]].names[q[2]])
    /\ I.from_modules =
           {X.body[i].module :
               i \in {j \in DOMAIN X.body :
                         X.body[j].t = "ImportFrom" /\ X.body[j].module # NoName}}

\* C16: after the import statements of a unit are processed in order, each
\* local name (the alias if given, else the imported name) is one key, bound
\* to the ImportedName of the last import statement that binds it, and
\* from_modules holds exactly the non-empty origin modules of the
\* from-import statements.
C16_Shadowing ==
    pc = "done" => Shadowing(old.node, old_imports) /\ Shadowing(new.node, new_imports)

\* `import m as B`, then `from m import B`, then `from . import B`: B is
\* bound by the relative from-import, and m is the one origin module
C16_Witness ==
    /\ pc = "done"
    /\ old.node.body = <<Import(<<Alias(<<"m">>, <<"B">>)>>),
                         ImportFrom(<<"m">>, <<Alias(<<"B">>, NoName)>>),
                         ImportFrom(NoName, <<Alias(<<"B">>, NoName)>>)>>
    /\ DOMAIN old_imports.names = {<<"B">>}
    /\ old_imports.names[<<"B">>].node = ImportFrom(NoName, <<Alias(<<"B">>, NoName)>>)
    /\ old_imports.from_modules = {<<"m">>}

(***************************************************************************)
(* set_method() (C17)                                                      *)
(***************************************************************************)
FunctionVocabulary == {"function", "Function"}

MethodVocabulary == {"method", "Method"}

Pieces(line) == {line[i] : i \in DOMAIN line}

\* every line of the rendering: the changesets of removed and new functions
\* and the heading lines of the changed ones
RenderedLines(rendering) ==
    rendering.removed \cup rendering.new
    \cup UNION {{rendering.changed[f].lines[i] : i \in DOMAIN rendering.changed[f].lines} :
                   f \in DOMAIN rendering.changed}

\* every line names the method noun and no line a function noun
MethodRendering(d) ==
    \A line \in RenderedLines(FunctionsPyfference_str(d)) :
        /\ Pieces(line) \cap MethodVocabulary # {}
        /\ Pieces(line) \cap FunctionVocabulary = {}

\* the recorded changes of d and e are the same: names, old names,
\* implementation records, summaries
SameRecords(d, e) ==
    /\ DOMAIN d.removed = DOMAIN e.removed
    /\ DOMAIN d.changed = DOMAIN e.changed
    /\ DOMAIN d.new = DOMAIN e.new
    /\ \A f \in DOMAIN d.removed :
           [d.removed[f] EXCEPT !.noun = ""] = [e.removed[f] EXCEPT !.noun = ""]
    /\ \A f \in DOMAIN d.new : [d.new[f] EXCEPT !.noun = ""] = [e.new[f] EXCEPT !.noun = ""]
    /\ \A f \in DOMAIN d.changed :
           [d.changed[f] EXCEPT !.noun = ""] = [e.changed[f] EXCEPT !.noun = ""]

\* set_method() has been called on result, and no other method since
SetMethodCalled == pc = "FunctionsPyfference" /\ new = result

\* C17: after one or more calls of FunctionsPyfference.set_method() every
\* removed, changed and new entry renders with the method noun and none with
\* the function noun, one more call would change nothing, and the call left
\* every recorded change as it was.
C17_SetMethod ==
    SetMethodCalled =>
        /\ MethodRendering(result)
        /\ FunctionsPyfference_set_method(result) = result
        /\ SameRecords(old, result)

\* a first call on a diff that holds a removed, a changed and a new function
C17_Witness ==
    /\ SetMethodCalled
    /\ old # result
    /\ DOMAIN result.removed # {} /\ DOMAIN result.new # {}
    /\ \E f \in DOMAIN result.changed :
           result.changed[f].old_name # NoStr /\ result.changed[f].implementation # {}

\* set_method() was called a second time
SetMethodCalledAgain ==
    /\ SetMethodCalled
    /\ old = result
    /\ DOMAIN result.removed # {} /\ DOMAIN result.changed # {}

\* the same noun after a ClassPyfference was rendered: its methods render as methods
MethodRenderingInClass ==
    (pc = "ClassPyfference" /\ ~IsNone(result.methods)
        /\ ClassPyfference_str(result) = result) => MethodRendering(result.methods)

(***************************************************************************)
(* repositories.py: pyff_git_revision.  old is the call's arguments, new   *)
(* the file system under the temporary working directory, result the       *)
(* value or exception the call is leaving with.                            *)
(***************************************************************************)
Absent == "absent"

\* the trees a revision can hold; the broken one holds a file that does not parse
RevTrees == {"t1", "t2", "broken"}

Revisions == {"r1", "r2", "r3"}

\* a repository maps the revisions it holds to their trees
Repositories ==
    {("r1" :> "t1" @@ "r2" :> "t2"),
     ("r1" :> "t1" @@ "r2" :> "t1"),
     ("r1" :> "t1" @@ "r2" :> "broken")}

NoDirectory == [temporary_wd |-> FALSE, source |-> Absent, old |-> Absent, new |-> Absent]

DirectoryPyfference(old_tree, new_tree) ==
    [tag |-> "DirectoryPyfference", old |-> old_tree, new |-> new_tree]

RevisionsPyfference(change) == [tag |-> "RevisionsPyfference", change |-> change]

\* pyff_directory over two trees: an error when one is no directory or holds a
\* file that does not parse, None when they hold the same, a difference otherwise
pyff_directory(old_tree, new_tree) ==
    IF old_tree = Absent \/ new_tree = Absent THEN Raise("ValueError")
    ELSE IF old_tree = "broken" \/ new_tree = "broken" THEN Raise("SyntaxError")
    ELSE IF old_tree = new_tree THEN None
    ELSE DirectoryPyfference(old_tree, new_tree)

\* TemporaryDirectory.cleanup(): the directory goes with all it holds (the
\* mutation leaves it in place, as mkdtemp() without cleanup would)
cleanup_kept(fs) == fs

cleanup(fs) == NoDirectory

InitRevision ==
    /\ old \in [repository : Repositories, old : Revisions, new : Revisions]
    /\ new = NoDirectory
    /\ old_imports = ImportedNames
    /\ new_imports = ImportedNames
    /\ result = None
    /\ pc = "call"

\* a step of the with body fails: the exception leaves through __exit__
Fails(exc) ==
    /\ result' = Raise(exc)
    /\ pc' = "exit"
    /\ UNCHANGED <<old, new, old_imports, new_imports>>

\* a step of the with body succeeds and leaves the file system as fs
Proceeds(fs, next) ==
    /\ new' = fs
    /\ pc' = next
    /\ UNCHANGED <<old, old_imports, new_imports, result>>

TemporaryDirectory_enter ==
    /\ pc = "call"
    /\ \/ Proceeds([new EXCEPT !.temporary_wd = TRUE], "clone_from")
       \/ /\ result' = Raise("OSError")
          /\ pc' = "raised"
          /\ UNCHANGED <<old, new, old_imports, new_imports>>

clone_from ==
    /\ pc = "clone_from"
    /\ \/ Proceeds([new EXCEPT !.source = old.repository["r1"]], "checkout_old")
       \/ Fails("GitCommandError")

checkout(at, revision, next) ==
    /\ pc = at
    /\ \/ /\ revision \in DOMAIN old.repository
          /\ Proceeds([new EXCEPT !.source = old.repository[revision]], next)
       \/ Fails("GitCommandError")

copytree(at, next) ==
    /\ pc = at
    /\ \/ IF at = "copytree_old"
          THEN Proceeds([new EXCEPT !.old = new.source], next)
          ELSE Proceeds([new EXCEPT !.new = new.source], next)
       \/ Fails("OSError")

checkout_old == checkout("checkout_old", old.old, "copytree_old")

copytree_old == copytree("copytree_old", "checkout_new")

checkout_new == checkout("checkout_new", old.new, "copytree_new")

copytree_new == copytree("copytree_new", "pyff_directory")

\* the comparison and the return statement that follows it
compare_directories ==
    /\ pc = "pyff_directory"
    /\ result' = IF IsRaise(pyff_directory(new.old, new.new)) \/ IsNone(pyff_directory(new.old, new.new))
                 THEN pyff_directory(new.old, new.new)
                 ELSE RevisionsPyfference(pyff_directory(new.old, new.new))
    /\ pc' = "exit"
    /\ UNCHANGED <<old, new, old_imports, new_imports>>

TemporaryDirectory_exit ==
    /\ pc = "exit"
    /\ new' = cleanup(new)
    /\ pc' = IF IsRaise(result) THEN "raised" ELSE "returned"
    /\ UNCHANGED <<old, old_imports, new_imports, result>>

NextRevision ==
    \/ TemporaryDirectory_enter
    \/ clone_from
    \/ checkout_old
    \/ copytree_old
    \/ checkout_new
    \/ copytree_new
    \/ compare_directories
    \/ TemporaryDirectory_exit

SpecRevision == InitRevision /\ [][NextRevision]_vars

(***************************************************************************)
(* Cleanup of the temporary working directory (C18)                        *)
(***************************************************************************)
\* the steps of the with body
BodySteps ==
    {"clone_from", "checkout_old", "copytree_old", "checkout_new", "copytree_new",
     "pyff_directory"}

\* while the body runs the directory is there, and nothing is in it before
\* the directory was acquired
HeldThroughBody ==
    /\ pc \in BodySteps => new.temporary_wd
    /\ ~new.temporary_wd => new = NoDirectory

\* the call has left, by return or by exception, and nothing is left behind
RemovedAtExit == pc \in {"returned", "raised"} => new = NoDirectory

\* the directory goes only in the step that follows the end of the body
RemovedOnlyAtExit == new.temporary_wd /\ ~new'.temporary_wd => pc = "exit"

\* C18: in pyff_git_revision the temporary working directory is acquired
\* before the clone, is removed on every exit path (return with a difference,
\* return with none, failure of clone, checkout, copy or comparison), and is
\* never removed before the comparison has finished.
C18_TemporaryDirectoryCleanup ==
    /\ [](HeldThroughBody /\ RemovedAtExit)
    /\ [][RemovedOnlyAtExit]_vars

\* the call returned a difference after the whole body ran
C18_Witness ==
    /\ pc = "returned"
    /\ ~IsNone(result)
    /\ new = NoDirectory

ReturnedNone == pc = "returned" /\ IsNone(result) /\ new = NoDirectory

ComparisonFailed ==
    pc = "raised" /\ result = Raise("SyntaxError") /\ new = NoDirectory

CheckoutFailed ==
    pc = "raised" /\ result = Raise("GitCommandError") /\ old.old = "r3" /\ new = NoDirectory

(***************************************************************************)
(* The generic record of pyff_function (C19)                               *)
(***************************************************************************)
\* the positions both bodies hold
CommonPositions == DOMAIN old.node.body \cap DOMAIN new.node.body

DifferentLengths == Len(old.node.body) # Len(new.node.body)

\* what the equivalence checker says of the pair at position i
Explanation(i) ==
    find_external_name_matches(old.node.body[i], new.node.body[i], old_imports, new_imports)

\* the pair at position i differs and the checker explains it by aliases
ExplainedAt(i) ==
    /\ old.node.body[i] # new.node.body[i]
    /\ ~IsNone(Explanation(i)) /\ ~IsRaise(Explanation(i))

\* the pair at position i differs and the checker finds no explanation
UnexplainedAt(i) == old.node.body[i] # new.node.body[i] /\ IsNone(Explanation(i))

\* the statement change that wraps a difference nothing is known about
WrappedUnknown == StatementChange(StatementPyfference)

\* d is a function diff that holds the generic record, once
HoldsOneGeneric(d) ==
    /\ ~IsRaise(d) /\ ~IsNone(d)
    /\ Cardinality({c \in d.implementation : c.tag = "FunctionImplementationChange"}) = 1
    /\ WrappedUnknown \notin d.implementation

GenericRecord ==
    /\ DifferentLengths =>
           /\ HoldsOneGeneric(result)
           /\ (\E i \in CommonPositions : ExplainedAt(i)) =>
                  \E c \in result.implementation : c.tag = "StatementChange"
    /\ (\E i \in CommonPositions : UnexplainedAt(i)) => HoldsOneGeneric(result)

\* C19: when the bodies have different lengths pyff_function compares every
\* position both hold and then records the generic record; when a pair
\* differs and the checker finds no alias explanation the generic record,
\* not a wrapped statement change, is recorded; however many positions are
\* unexplained the implementation set holds exactly one generic record.
C19_GenericRecord == pc = "done" => GenericRecord

\* the same whenever pyff_function returns
GenericRecordWhenReturned == (pc = "done" /\ ~IsRaise(result)) => GenericRecord

\* pyff_function raises only when a compared pair names an import whose
\* qualification raises
GenericRecordRaises ==
    (pc = "done" /\ IsRaise(result)) =>
        /\ result.exc = "Exception"
        /\ \E i \in CommonPositions : IsRaise(Explanation(i))

\* two unexplained positions and a longer new body gave one generic record
TwoUnexplainedCompared ==
    /\ pc = "done"
    /\ Len(old.node.body) = 2 /\ Len(new.node.body) = 2
    /\ UnexplainedAt(1) /\ UnexplainedAt(2)
    /\ HoldsOneGeneric(result)

\* an explained position before the end of the shorter body
ExplainedThenLonger ==
    /\ pc = "done"
    /\ DifferentLengths
    /\ ExplainedAt(1)
    /\ HoldsOneGeneric(result)
    /\ \E c \in result.implementation : c.tag = "StatementChange"

(***************************************************************************)
(* External usage change (C20)                                             *)
(***************************************************************************)
RECURSIVE Dotted(_)
\* the dotted name an expression spells, NoName when it spells none
Dotted(e) ==
    IF e.t = "Name" THEN <<e.id>>
    ELSE IF e.t = "Attribute" /\ Dotted(e.value) # NoName THEN Dotted(e.value) \o <<e.attr>>
    ELSE NoName

\* the names of import model I that the statements of body spell
Referenced(body, I) ==
    {Dotted(e) : e \in UNION {SubExprs(body[i]) : i \in DOMAIN body}} \cap DOMAIN I.names

\* the record the claim describes for two bodies, each under its own model
ExpectedUsage(old_body, new_body, o_imports, n_imports) ==
    LET appeared == Referenced(new_body, n_imports) \ Referenced(old_body, o_imports)
        gone == Referenced(old_body, o_imports) \ Referenced(new_body, n_imports)
    IN  IF appeared = {} /\ gone = {} THEN None ELSE ExternalUsageChange(gone, appeared)

\* the function diff d holds usage as its only external usage record, or
\* none when usage is None
RecordsUsage(d, usage) ==
    /\ ~IsRaise(d)
    /\ IF IsNone(usage)
       THEN IsNone(d) \/ \A c \in d.implementation : c.tag # "ExternalUsageChange"
       ELSE /\ ~IsNone(d)
            /\ {c \in d.implementation : c.tag = "ExternalUsageChange"} = {usage}

ExternalUsage ==
    /\ compare_import_usage(old.node, new.node, old_imports, new_imports)
           = ExpectedUsage(old.node.body, new.node.body, old_imports, new_imports)
    /\ RecordsUsage(result, compare_import_usage(old.node, new.node, old_imports, new_imports))

\* C20: compare_import_usage returns a record whose appeared set holds the
\* imported names the new body refers to and the old body does not, and whose
\* gone set holds the reverse, each body under its own import model; it
\* returns None exactly when both sets are empty; pyff_function records it
\* whatever the statement comparison found.
C20_ExternalUsage == pc = "done" => ExternalUsage

\* the same whenever pyff_function returns
ExternalUsageWhenReturned == (pc = "done" /\ ~IsRaise(result)) => ExternalUsage

\* compare_import_usage alone never raises and returns the record described
UsageCompared ==
    pc = "done" =>
        compare_import_usage(old.node, new.node, old_imports, new_imports)
            = ExpectedUsage(old.node.body, new.node.body, old_imports, new_imports)

\* the same over the statements of the statement comparison, which spell
\* dotted names: each statement is the body of a function
UsageComparedInStatements ==
    compare_import_usage(FunctionDef("f", <<old>>, << >>), FunctionDef("f", <<new>>, << >>),
                         old_imports, new_imports)
        = ExpectedUsage(<<old>>, <<new>>, old_imports, new_imports)

\* a usage record next to a generic record and next to none
UsageRecordedWithGeneric ==
    /\ pc = "done" /\ ~IsRaise(result) /\ ~IsNone(result)
    /\ FunctionImplementationChange \in result.implementation
    /\ ExternalUsageChange({<<"path">>}, {<<"p">>}) \in result.implementation

UsageRecordedAlone ==
    /\ pc = "done" /\ ~IsRaise(result) /\ ~IsNone(result)
    /\ Cardinality(result.implementation) = 1
    /\ \E c \in result.implementation : c.tag = "ExternalUsageChange"

(***************************************************************************)
(* Absence of a function diff (C21)                                        *)
(***************************************************************************)
\* nothing asks for an implementation-change record: the bodies are the same
\* statement by statement and refer to the same imported names
NoImplementationChange ==
    /\ old.node.body = new.node.body
    /\ IsNone(ExpectedUsage(old.node.body, new.node.body, old_imports, new_imports))

\* C21: pyff_function returns None exactly when the names are equal and no
\* implementation-change record was recorded; every FunctionPyfference it
\* returns has old_name set exactly when the names differ, and has a
\* non-empty implementation set or a set old_name.
C21_FunctionDiffAbsence ==
    pc = "done" =>
        /\ IsNone(result) <=> (old.name = new.name /\ NoImplementationChange)
        /\ (~IsNone(result) /\ ~IsRaise(result)) =>
               /\ result.old_name # NoStr <=> old.name # new.name
               /\ result.old_name # NoStr => result.old_name = old.name
               /\ result.name = new.name
               /\ result.implementation # {} \/ result.old_name # NoStr

\* two bodies of two statements under different import models compared to None
C21_Witness ==
    /\ pc = "done"
    /\ IsNone(result)
    /\ old.name = new.name
    /\ Len(old.node.body) = 2
    /\ old_imports # new_imports

\* a diff with a changed implementation and no rename
ImplementationOnlyDiff ==
    /\ pc = "done" /\ ~IsNone(result) /\ ~IsRaise(result)
    /\ result.old_name = NoStr /\ result.implementation # {}

(***************************************************************************)
(* Class diff (C22)                                                        *)
(***************************************************************************)
\* the method diff of the two class bodies
MethodDiff == pyff_functions(old.definition, new.definition, old_imports, new_imports)

\* d is what the claim describes for the two summaries
ClassDiff(d) ==
    /\ ~IsRaise(d)
    /\ IsNone(d) <=> /\ IsNone(MethodDiff)
                     /\ old.attributes \ new.attributes = {}
                     /\ new.attributes \ old.attributes = {}
    /\ ~IsNone(d) =>
           /\ d.attributes.removed = old.attributes \ new.attributes
           /\ d.attributes.new = new.attributes \ old.attributes
           /\ d.name = new.definition.name

\* C22: pyff_class(old, new, ...) yields an attribute diff with removed =
\* old.attributes - new.attributes and new = new.attributes - old.attributes,
\* and returns None exactly when the method diff of the two class bodies is
\* absent and both attribute sets are empty.
C22_ClassDiff == pc = "pyff_class" => ClassDiff(result)

\* the same whenever pyff_class returns
ClassDiffWhenReturned == (pc = "pyff_class" /\ ~IsRaise(result)) => ClassDiff(result)

\* pyff_class raises only when the comparison of its methods raises
ClassDiffRaises == (pc = "pyff_class" /\ IsRaise(result)) => result = MethodDiff

\* an attribute removed and another one new
AttributesBothWays ==
    /\ pc = "pyff_class" /\ ~IsRaise(result) /\ ~IsNone(result)
    /\ result.attributes.removed = {"x"} /\ result.attributes.new = {"y"}

SameClassCompared == pc = "pyff_class" /\ IsNone(result) /\ old.attributes # {}

(***************************************************************************)
(* Method vocabulary at construction (C23)                                 *)
(***************************************************************************)
\* pyff_class returned a class diff that holds a method diff
HoldsMethodDiff(d) == ~IsRaise(d) /\ ~IsNone(d) /\ ~IsNone(d.methods)

\* C23: the method diff held by the ClassPyfference that pyff_class returns
\* is marked as method vocabulary when pyff_class returns: rendering it says
\* method, not function, even if the ClassPyfference was never rendered.
C23_MethodVocabularyAtConstruction ==
    (pc = "pyff_class" /\ HoldsMethodDiff(result)) => MethodRendering(result.methods)

\* the method diff as pyff_class returns it renders with the function noun
\* wherever it renders a noun
FunctionVocabularyAtConstruction ==
    (pc = "pyff_class" /\ HoldsMethodDiff(result)) =>
        \A line \in RenderedLines(FunctionsPyfference_str(result.methods)) :
            Pieces(line) \cap FunctionVocabulary # {}

\* rendering the ClassPyfference marks its method diff
MarkedOnceRendered ==
    (pc = "pyff_class" /\ HoldsMethodDiff(result)) =>
        MethodRendering(ClassPyfference_str(result).methods)

\* pyff_classes formats every difference for its debug line, so the class
\* diffs it returns are marked
MarkedByPyffClasses ==
    (pc = "pyff_classes" /\ ~IsRaise(result) /\ ~IsNone(result)) =>
        \A k \in DOMAIN result.changed :
            ~IsNone(result.changed[k].methods) => MethodRendering(result.changed[k].methods)

\* a new method in the class diff pyff_class returned
NewMethodReturned ==
    /\ pc = "pyff_class" /\ HoldsMethodDiff(result)
    /\ DOMAIN result.methods.new # {}

(***************************************************************************)
(* imports.py: ImportsPyfference.reduce() on a diff built through the      *)
(* methods of the class.  The direct imports of a diff bind distinct       *)
(* names, as those of two import models do, so the order of the two loops  *)
(* over the sets does not show.                                            *)
(***************************************************************************)
ReduceDirect ==
    {ImportedName(<<"os">>, Import(<<Alias(<<"os">>, NoName)>>), Alias(<<"os">>, NoName)),
     ImportedName(<<"sys">>, Import(<<Alias(<<"sys">>, NoName)>>), Alias(<<"sys">>, NoName)),
     ImportedName(<<"p">>, Import(<<Alias(<<"sys">>, <<"p">>)>>), Alias(<<"sys">>, <<"p">>))}

\* the name path imported from module m
ReduceFromName(m) ==
    ImportedName(<<"path">>, ImportFrom(m, <<Alias(<<"path">>, NoName)>>), Alias(<<"path">>, NoName))

\* the diffs that new_import, removed_import, new_from_import,
\* removed_from_import and the two *_fromimport_modules calls build
ReduceDiffs ==
    {[ImportsPyfference EXCEPT
          !.new_imports = n, !.removed_imports = r,
          !.fi_new_modules = nm, !.fi_removed_modules = rm,
          !.fi_new = [m \in nk |-> {ReduceFromName(m)}],
          !.fi_removed = [m \in rk |-> {ReduceFromName(m)}]] :
        n \in SUBSET ReduceDirect, r \in SUBSET ReduceDirect,
        nm \in SUBSET ImpModules, rm \in SUBSET ImpModules,
        nk \in SUBSET ImpModules, rk \in SUBSET ImpModules}

InitReduce ==
    /\ old = NoUnit
    /\ new = NoUnit
    /\ old_imports = ImportedNames
    /\ new_imports = ImportedNames
    /\ result \in ReduceDiffs
    /\ pc = "ImportsPyfference"

\* result.reduce(): old keeps the diff as it was before the call
Reduce ==
    /\ pc = "ImportsPyfference"
    /\ old' = result
    /\ result' = reduce(result)
    /\ pc' = IF IsRaise(reduce(result)) THEN "raised" ELSE "reduced"
    /\ UNCHANGED <<new, old_imports, new_imports>>

NextReduce == Reduce

SpecReduce == InitReduce /\ [][NextReduce]_vars

(***************************************************************************)
(* Reduction fixed point (C24)                                             *)
(***************************************************************************)
\* no reduction applies to diff d
Reduced(d) ==
    /\ \A n \in d.new_imports : n.name \notin d.fi_removed_modules
    /\ \A n \in d.removed_imports : n.name \notin d.fi_new_modules

\* every import of diff b that matched a module has been converted in d
AllConverted(b, d) ==
    /\ \A n \in b.new_imports :
           n.name \in b.fi_removed_modules =>
               /\ n \notin d.new_imports
               /\ n.name \in DOMAIN d.changed_to_import
               /\ n.name \notin d.fi_removed_modules
    /\ \A n \in b.removed_imports :
           n.name \in b.fi_new_modules =>
               /\ n \notin d.removed_imports
               /\ n.name \in DOMAIN d.changed_to_fromimport
               /\ n.name \notin d.fi_new_modules

\* C24: after ImportsPyfference.reduce() returns no further reduction
\* applies: no remaining new direct import has a name in the removed
\* from-import module set, no remaining removed direct import has a name in
\* the new from-import module set, and every matching module, not only the
\* first, has been converted.
C24_ReductionFixedPoint ==
    pc = "reduced" =>
        /\ Reduced(result)
        /\ AllConverted(old, result)
        /\ reduce(result) = result

\* two modules converted by the first loop and one by the second
C24_Witness ==
    /\ pc = "reduced"
    /\ DOMAIN result.changed_to_import = {<<"os">>, <<"sys">>}
    /\ DOMAIN result.changed_to_fromimport # {}
    /\ old # result

\* the same for every diff ImportedNames.compare returns
ReducedWhenCompared ==
    (pc = "compared" /\ ~IsRaise(result) /\ ~IsNone(result)) => Reduced(result)

(***************************************************************************)
(* Upgrade and downgrade are exclusive (C25)                               *)
(***************************************************************************)
\* ImportedNames.compare returned a diff
DiffCompared == pc = "compared" /\ ~IsRaise(result) /\ ~IsNone(result)

DowngradeCompared == DiffCompared /\ DOMAIN result.changed_to_fromimport # {}

(***************************************************************************)
(* Bookkeeping of FullyQualifyNames (C26)                                  *)
(***************************************************************************)
RECURSIVE Root(_)
\* the name a chain of attribute accesses starts at
Root(e) == IF e.t = "Attribute" THEN Root(e.value) ELSE e

\* the names and attribute-access chains of statement s that are rooted at
\* a name import model I binds
RootedChains(s, I) ==
    {e \in SubExprs(s) : Dotted(e) # NoName /\ <<Root(e).id>> \in DOMAIN I.names}

\* the canonical spelling of a rooted chain: the canonical name of its root,
\* then its attributes
CanonicalChain(e, I) ==
    canonical_name(I.names[<<Root(e).id>>]) \o SubSeq(Dotted(e), 2, Len(Dotted(e)))

\* the visitor after it visited statement s under import model I
Visitor(s, I) == FullyQualifyNames_visit(FullyQualifyNames(I), s)

\* the two tables of visitor v hold what the claim says for s under I
Bookkeeping(v, s, I) ==
    /\ DOMAIN v.substitutions =
           {k \in UsedImports(s, I) : canonical_name(I.names[k]) # k}
    /\ \A k \in DOMAIN v.substitutions : v.substitutions[k] = canonical_name(I.names[k])
    /\ DOMAIN v.references = {CanonicalChain(e, I) : e \in RootedChains(s, I)}
    /\ \A e \in RootedChains(s, I) : v.references[CanonicalChain(e, I)] = Dotted(e)

\* C26: after FullyQualifyNames visits a statement, substitutions maps local
\* to canonical exactly for the visited imported names whose local name
\* differs from their canonical name, and references maps canonical to local
\* exactly for every visited imported name and every attribute-access chain
\* rooted at such a name, with no entry for an attribute access that is not
\* rooted at an imported name.
C26_CanonicalizationBookkeeping ==
    (pc = "done" /\ old # new) =>
        /\ ~IsRaise(Visitor(old, old_imports).node) =>
               Bookkeeping(Visitor(old, old_imports).self, old, old_imports)
        /\ ~IsRaise(Visitor(new, new_imports).node) =>
               Bookkeeping(Visitor(new, new_imports).self, new, new_imports)

\* the same for every statement with no attribute access on a call
BookkeepingOfChains ==
    (pc = "done" /\ old # new /\ AttributeOfCall \notin SubExprs(old)
        /\ ~IsRaise(Visitor(old, old_imports).node)) =>
        Bookkeeping(Visitor(old, old_imports).self, old, old_imports)

\* a chain of two attribute accesses on a substituted name was visited
ChainVisited ==
    /\ pc = "done" /\ old # new
    /\ old = Return(Attribute(Attribute(Name("p"), "path"), "join"))
    /\ DOMAIN Visitor(old, old_imports).self.substitutions = {<<"p">>}
    /\ Cardinality(DOMAIN Visitor(old, old_imports).self.references) = 3

\* x(path).join was visited under "from os import path": the name left by
\* the argument of the call makes the visitor record os.path.join
AttributeOfCallRecorded ==
    /\ pc = "done" /\ old # new
    /\ old = Return(AttributeOfCall)
    /\ ~IsRaise(Visitor(old, old_imports).node)
    /\ <<"os", "path", "join">> \in DOMAIN Visitor(old, old_imports).self.references

(***************************************************************************)
(* Statement changes of several positions (C27)                            *)
(***************************************************************************)
\* what pyff_statement says of the pair at position i
ChangeAt(i) ==
    pyff_statement(old.node.body[i], new.node.body[i], old_imports, new_imports)

\* the pair at position i has a specific statement difference
SpecificAt(i) ==
    /\ ~IsNone(ChangeAt(i)) /\ ~IsRaise(ChangeAt(i))
    /\ is_specific(ChangeAt(i))

\* the distinct specific differences of the positions both bodies hold
SpecificChanges == {ChangeAt(i) : i \in {j \in CommonPositions : SpecificAt(j)}}

\* C27: when the bodies differ at several positions and the checker returns
\* a specific statement difference for each, the implementation set of the
\* function diff holds one wrapped statement change for each distinct
\* difference.
C27_NoStatementChangeLost ==
    (pc = "done" /\ ~IsRaise(result) /\ SpecificChanges # {}) =>
        /\ ~IsNone(result)
        /\ \A c \in SpecificChanges : StatementChange(c) \in result.implementation

\* the set holds exactly one wrapped statement change whenever a position
\* has a specific difference
OneStatementChangeKept ==
    (pc = "done" /\ ~IsRaise(result) /\ SpecificChanges # {}) =>
        /\ ~IsNone(result)
        /\ Cardinality({c \in result.implementation : c.tag = "StatementChange"}) = 1
        /\ \E c \in SpecificChanges : StatementChange(c) \in result.implementation

\* a single distinct specific difference is kept
SingleStatementChangeKept ==
    (pc = "done" /\ ~IsRaise(result) /\ Cardinality(SpecificChanges) = 1) =>
        StatementChange(CHOOSE c \in SpecificChanges : TRUE) \in result.implementation

\* two positions had specific differences of distinct content
TwoSpecificCompared ==
    /\ pc = "done" /\ ~IsRaise(result)
    /\ Cardinality(SpecificChanges) = 2

(***************************************************************************)
(* Rebinding of a local name (C28)                                         *)
(***************************************************************************)
\* the local names both models bind
BoundInBoth == DOMAIN old_imports.names \cap DOMAIN new_imports.names

\* the local name k is bound to different canonical names in the two models
Rebound(k) ==
    canonical_name(old_imports.names[k]) # canonical_name(new_imports.names[k])

\* every local name bound in either model is bound in both, to the same
\* canonical name
SameBindings ==
    /\ DOMAIN old_imports.names = DOMAIN new_imports.names
    /\ \A k \in BoundInBoth : ~Rebound(k)

\* C28: ImportedNames.compare(old, new) is absent only if every local name
\* bound in either model is bound in both models to the same canonical
\* name; when some local name is bound to different canonical names in old
\* and new the result is not absent.
C28_RebindingDetected == (pc = "compared" /\ IsNone(result)) => SameBindings

\* the local names of model I that are not bound by a from-import with no
\* module ("from . import x")
OriginNamed(I) ==
    {k \in DOMAIN I.names :
        I.names[k].node.t = "ImportFrom" => I.names[k].node.module # NoName}

\* what an absent result does mean: a local name bound in one model only is
\* bound by a from-import with no module, and both models import names
\* from the same modules
SameLocalNames ==
    (pc = "compared" /\ IsNone(result)) =>
        /\ DOMAIN old_imports.names \ DOMAIN new_imports.names
               \subseteq DOMAIN old_imports.names \ OriginNamed(old_imports)
        /\ DOMAIN new_imports.names \ DOMAIN old_imports.names
               \subseteq DOMAIN new_imports.names \ OriginNamed(new_imports)
        /\ old_imports.from_modules = new_imports.from_modules

\* "from . import path" was removed and nothing was reported
RelativeRemovalUnreported ==
    /\ pc = "compared" /\ IsNone(result)
    /\ DOMAIN old_imports.names = {<<"path">>} /\ DOMAIN new_imports.names = {}

\* "import os as p" was compared with "import sys as p" and nothing was
\* reported
ReboundUnreported ==
    /\ pc = "compared" /\ IsNone(result)
    /\ DOMAIN old_imports.names = {<<"p">>} /\ DOMAIN new_imports.names = {<<"p">>}
    /\ old_imports.names[<<"p">>].node = Import(<<Alias(<<"os">>, <<"p">>)>>)
    /\ new_imports.names[<<"p">>].node = Import(<<Alias(<<"sys">>, <<"p">>)>>)

(***************************************************************************)
(* directories.py: find_those_pythonz over a finite directory tree.  A     *)
(* path is the sequence of its components, a component the pair of its     *)
(* stem and its suffix.  The tree is in old (its directories and its       *)
(* files), the worklist traverse_directories in new, the two result sets   *)
(* in result; old_imports keeps the candidates popped so far, in order.    *)
(***************************************************************************)
MaxDirs == 3

directory == <<<<"toplevel", "">>>>

DirNames == {<<"a", "">>, <<"b", "">>}

InitPy == <<"__init__", ".py">>

FileNames == {InitPy, <<"m", ".py">>, <<"README", "">>}

\* PurePath.suffix, PurePath.parent, PurePath.relative_to, Path.__truediv__
suffix(path) == path[Len(path)][2]

parent(path) == SubSeq(path, 1, Len(path) - 1)

relative_to(path, other) == SubSeq(path, Len(other) + 1, Len(path))

joinpath(path, name) == Append(path, name)

\* Path.exists, Path.is_file, Path.is_dir, Path.iterdir on file system fs
exists(fs, path) == path \in fs.dirs \cup fs.files

is_file(fs, path) == path \in fs.files

is_dir(fs, path) == path \in fs.dirs

iterdir(fs, path) == {item \in fs.dirs \cup fs.files : Len(item) > 1 /\ parent(item) = path}

\* the directory trees below directory with at most MaxDirs directories,
\* directory included
DirectoryTrees ==
    {{directory \o d : d \in T} :
        T \in {S \in SUBSET SeqsUpTo(DirNames, MaxDirs - 1) :
                  /\ << >> \in S
                  /\ Cardinality(S) <= MaxDirs
                  /\ \A d \in S : d # << >> => SubSeq(d, 1, Len(d) - 1) \in S}}

\* the files the directories of D can hold
FilesOf(D) == {joinpath(d, f) : d \in D, f \in FileNames}

\* one round of the while loop with candidate popped: self holds
\* traverse_directories (without candidate), packages and modules
visit_candidate_descending(fs, self, candidate) ==
    [traverse_directories |->
         self.traverse_directories \cup {item \in iterdir(fs, candidate) : is_dir(fs, item)},
     packages |->
         IF exists(fs, joinpath(candidate, InitPy))
         THEN self.packages \cup {relative_to(candidate, directory)}
         ELSE self.packages,
     modules |->
         self.modules \cup
             {relative_to(item, directory) :
                 item \in {i \in iterdir(fs, candidate) : is_file(fs, i) /\ suffix(i) = ".py"}}]

visit_candidate(fs, self, candidate) ==
    IF exists(fs, joinpath(candidate, InitPy))
    THEN [self EXCEPT !.packages = @ \cup {relative_to(candidate, directory)}]
    ELSE [traverse_directories |->
              self.traverse_directories \cup
                  {item \in iterdir(fs, candidate) : ~(is_file(fs, item) /\ suffix(item) = ".py")
                                                     /\ is_dir(fs, item)},
          packages |-> self.packages,
          modules |->
              self.modules \cup
                  {relative_to(item, directory) :
                      item \in {i \in iterdir(fs, candidate) :
                                   is_file(fs, i) /\ suffix(i) = ".py"}}]

\* every directory of the tree holds any of the files of FileNames
InitDiscovery ==
    /\ \E D \in DirectoryTrees : \E F \in SUBSET FilesOf(D) :
           old = [dirs |-> D, files |-> F]
    /\ new = {directory}
    /\ result = [packages |-> {}, modules |-> {}]
    /\ old_imports = << >>
    /\ new_imports = directory
    /\ pc = "while"

\* set.pop() takes any element of the set
pop_candidate ==
    /\ pc = "while"
    /\ new # {}
    /\ \E candidate \in new :
           /\ new' = visit_candidate(old,
                          [traverse_directories |-> new \ {candidate},
                           packages |-> result.packages,
                           modules |-> result.modules], candidate).traverse_directories
           /\ result' =
                  [packages |-> visit_candidate(old,
                          [traverse_directories |-> new \ {candidate},
                           packages |-> result.packages,
                           modules |-> result.modules], candidate).packages,
                   modules |-> visit_candidate(old,
                          [traverse_directories |-> new \ {candidate},
                           packages |-> result.packages,
                           modules |-> result.modules], candidate).modules]
           /\ old_imports' = Append(old_imports, candidate)
    /\ UNCHANGED <<old, new_imports, pc>>

find_those_pythonz_return ==
    /\ pc = "while"
    /\ new = {}
    /\ pc' = "returned"
    /\ UNCHANGED <<old, new, old_imports, new_imports, result>>

NextDiscovery == pop_candidate \/ find_those_pythonz_return

SpecDiscovery == InitDiscovery /\ [][NextDiscovery]_vars

\* the loop runs on: nothing suspends the function between two rounds
FairDiscovery == SpecDiscovery /\ WF_vars(NextDiscovery)

(***************************************************************************)
(* Directory discovery (C29)                                               *)
(***************************************************************************)
\* directory d of the tree holds __init__.py
IsPackage(d) == joinpath(d, InitPy) \in old.files

\* the directories above path, from its parent up to directory
Ancestors(path) == {SubSeq(path, 1, n) : n \in Len(directory) .. Len(path) - 1}

UnderPackage(path) == \E a \in Ancestors(path) : IsPackage(a)

\* the candidates popped so far
Popped == {old_imports[i] : i \in DOMAIN old_imports}

PoppedOnce == \A i, j \in DOMAIN old_imports : old_imports[i] = old_imports[j] => i = j

\* no directory below a package is scheduled or popped
NeverDescends == \A d \in new \cup Popped : d \in old.dirs /\ ~UnderPackage(d)

ExpectedPackages ==
    {relative_to(d, directory) : d \in {e \in old.dirs : IsPackage(e) /\ ~UnderPackage(e)}}

ExpectedModules ==
    {relative_to(f, directory) :
        f \in {g \in old.files : suffix(g) = ".py" /\ ~UnderPackage(g)}}

Discovered ==
    pc = "returned" =>
        /\ result.packages = ExpectedPackages
        /\ result.modules = ExpectedModules

\* C29: on every finite directory tree the worklist loop of
\* find_those_pythonz terminates, pops each directory at most once and
\* never descends into a directory that holds __init__.py; it returns as
\* packages exactly the directories (relative to the root) that hold
\* __init__.py and have no package among their ancestors, and as modules
\* exactly the .py files none of whose ancestor directories, the root
\* included, is a package.
C29_DirectoryDiscovery ==
    /\ <>(pc = "returned")
    /\ [](PoppedOnce /\ NeverDescends /\ Discovered)

\* a tree with a package in a package, a module in a package and a module
\* in a plain directory was searched to the end
C29_Witness ==
    /\ pc = "returned"
    /\ Cardinality(old.dirs) = 3
    /\ \E d \in old.dirs : IsPackage(d) /\ UnderPackage(d)
    /\ \E f \in old.files : suffix(f) = ".py" /\ f[Len(f)] # InitPy /\ UnderPackage(f)
    /\ \E m \in result.modules : Len(m) = 1
    /\ Cardinality(result.packages) = 1

\* a module two directories down was found
DeepModuleFound ==
    /\ pc = "returned"
    /\ \E m \in result.modules : Len(m) = 3

\* the root is itself a package
RootIsPackage ==
    /\ pc = "returned"
    /\ result.packages = {<< >>}
    /\ Cardinality(old.dirs) > 1

(***************************************************************************)
(* statements.py on objects: the statements and the import models a caller *)
(* passes are objects of a heap, a sequence of cells; a reference is the   *)
(* index of a cell.  An ast.NodeTransformer rewrites the object it visits: *)
(* after the visit the cell holds the transformed tree.                    *)
(***************************************************************************)
\* the same object again, where the code asks for a copy
deepcopy_same_object(heap, ref) == [heap |-> heap, ref |-> ref]

\* copy.deepcopy: a new object with the same content
deepcopy(heap, ref) == [heap |-> Append(heap, heap[ref]), ref |-> Len(heap) + 1]

\* the heap once the visit of the object at ref returned fq, the node with
\* the visitor; a visit that raises leaves an object nobody reads again
visited_in_place(heap, ref, fq) ==
    [heap |-> IF IsRaise(fq.node) THEN heap ELSE [heap EXCEPT ![ref] = fq.node],
     fq |-> fq]

\* visitor.visit(object at ref)
NodeTransformer_visit(heap, visitor, ref) ==
    visited_in_place(heap, ref, FullyQualifyNames_visit(visitor, heap[ref]))

\* visitor.visit(copy.deepcopy(statement)), copied being what deepcopy returned
visit_copied(copied, visitor) == NodeTransformer_visit(copied.heap, visitor, copied.ref)

\* the two loops over the substitutions, once both statements are qualified
matched(v_old, v_new) ==
    [heap |-> v_new.heap, result |-> match_substitutions(v_old.fq, v_new.fq)]

\* find_external_name_matches on the objects at o, n, o_imports, n_imports:
\* the heap after the call and what the call returns
find_external_name_matches_on(heap, o, n, o_imports, n_imports) ==
    IF heap[o] = heap[n] THEN [heap |-> heap, result |-> None]
    ELSE matched(visit_copied(deepcopy(heap, o), FullyQualifyNames(heap[o_imports])),
                 visit_copied(
                     deepcopy(visit_copied(deepcopy(heap, o),
                                           FullyQualifyNames(heap[o_imports])).heap, n),
                     FullyQualifyNames(heap[n_imports])))

\* pyff_statement after find_external_name_matches returned
recorded(found) == [heap |-> found.heap, result |-> record_name_matches(found.result)]

pyff_statement_on(heap, o, n, o_imports, n_imports) ==
    IF heap[o] = heap[n] THEN [heap |-> heap, result |-> None]
    ELSE recorded(find_external_name_matches_on(heap, o, n, o_imports, n_imports))

\* return e, return x(path).join and pass
ObjectStatements == {Return(e) : e \in Exprs(MaxDepth)} \cup {Return(AttributeOfCall), Pass}

InitObjects ==
    /\ old \in ObjectStatements
    /\ new \in ObjectStatements
    /\ old_imports \in {extract(u) : u \in StmtImportUnits}
    /\ new_imports \in {extract(u) : u \in StmtImportUnits}
    /\ result = None
    /\ pc = "start"

\* the objects the caller holds
CallerHeap == <<old, new, old_imports, new_imports>>

\* the caller calls pyff_statement on its objects, then once more
call_pyff_statement ==
    /\ pc \in {"start", "done"}
    /\ \E returned \in {pyff_statement_on(CallerHeap, 1, 2, 3, 4)} :
           /\ old' = returned.heap[1]
           /\ new' = returned.heap[2]
           /\ old_imports' = returned.heap[3]
           /\ new_imports' = returned.heap[4]
           /\ result' = returned.result
    /\ pc' = IF pc = "start" THEN "done" ELSE "done again"

\* the caller calls find_external_name_matches on its objects, then once more
call_find_external_name_matches ==
    /\ pc \in {"start", "matched"}
    /\ \E returned \in {find_external_name_matches_on(CallerHeap, 1, 2, 3, 4)} :
           /\ old' = returned.heap[1]
           /\ new' = returned.heap[2]
           /\ old_imports' = returned.heap[3]
           /\ new_imports' = returned.heap[4]
           /\ result' = returned.result
    /\ pc' = IF pc = "start" THEN "matched" ELSE "matched again"

NextObjects == call_pyff_statement \/ call_find_external_name_matches

SpecObjects == InitObjects /\ [][NextObjects]_vars

(***************************************************************************)
(* Purity of the comparison (C30)                                          *)
(***************************************************************************)
InputsKept ==
    /\ old' = old /\ new' = new
    /\ old_imports' = old_imports /\ new_imports' = new_imports

\* the step is a second call: it follows a first call
SecondCall == pc \in {"done", "matched"}

\* C30: pyff_statement and find_external_name_matches leave both statement
\* trees and both import models as they were, and a second comparison of
\* the same inputs returns what the first returned.
C30_ComparisonIsPure ==
    [][InputsKept /\ (SecondCall => result' = result)]_vars

\* both statements were rewritten on their copies by a call that found a
\* match, and the call was made again
C30_Witness ==
    /\ pc = "matched again"
    /\ ~IsNone(result) /\ ~IsRaise(result)
    /\ FullyQualifyNames_visit(FullyQualifyNames(old_imports), old).node # old
    /\ FullyQualifyNames_visit(FullyQualifyNames(new_imports), new).node # new

\* the same for pyff_statement
ComparedAgain ==
    /\ pc = "done again"
    /\ ~IsNone(result) /\ ~IsRaise(result)
    /\ result.semantically_irrelevant # {}
    /\ FullyQualifyNames_visit(FullyQualifyNames(old_imports), old).node # old

====
